---- MODULE Spec2Model ----
(***************************************************************************)
(* Batch execution pipeline and streaming export of uf0/florence2.         *)
(*                                                                         *)
(*   worker.js        runBatch: the per-item loop in the worker thread     *)
(*   App.jsx          the main thread: handleClick and onMessageReceived   *)
(*   streamingWriter  StreamingJSONWriter, StreamingCSVWriter,             *)
(*                    StreamingIndividualWriter, createStreamingWriter     *)
(*                                                                         *)
(*   imageCropping    cropAndSaveImagesStreaming, cropRegion and parseCSV  *)
(*                                                                         *)
(* Specifications:                                                         *)
(*   Spec        one batch run, from the click to the completion summary   *)
(*   SpecWriter  a writer object driven directly, one awaited call at a    *)
(*               time, in any order of initialize/writeResult/finalize     *)
(*   SpecCrop    one call of cropAndSaveImagesStreaming                    *)
(*   SpecClamp   cropRegion on a box, and again on the box it clamped      *)
(*   SpecLoad    a batch run that may be started while the model loads     *)
(*   SpecRun     single-image runs and the resets of image changes         *)
(*   SpecParse   parseCSV of a text, its records written out and parsed    *)
(*               again                                                     *)
(***************************************************************************)
EXTENDS Integers, Sequences, FiniteSets, TLC

\* ------------------------------------------------------------------ bounds
MaxItems == 2
MaxLabels == 1
MaxCalls == 4

\* ------------------------------------------------------- JavaScript values
\* Strings are sequences of one-character strings, so that the code's
\* includes(',') and replace(/"/g, '""') can be computed. Numbers carry twice
\* their value (n2), so that the half-integer box coordinates the model
\* produces and Math.round are both representable.
Undef == [t |-> "undef"]
Null == [t |-> "null"]
Str(s) == [t |-> "str", s |-> s]
Num(n) == [t |-> "num", n2 |-> 2 * n]
Half(h) == [t |-> "num", n2 |-> h]
\* the number p/q where it is no multiple of a half (p > 0)
Frac(p, q) == [t |-> "frac", p |-> p, q |-> q]
Arr(es) == [t |-> "arr", es |-> es]
\* an object: its own properties in insertion order, as <<key, value>> pairs
Obj(kv) == [t |-> "obj", kv |-> kv]

IsObj(v) == v.t = "obj"
IsArr(v) == v.t = "arr"
IsStr(v) == v.t = "str"

\* JavaScript truthiness (the operand of ||, && and !)
Truthy(v) ==
    CASE v.t = "undef" -> FALSE
      [] v.t = "null" -> FALSE
      [] v.t = "str" -> v.s # <<>>
      [] v.t = "num" -> v.n2 # 0
      [] OTHER -> TRUE

Keys(o) == [j \in 1..Len(o.kv) |-> o.kv[j][1]]
HasKey(o, k) == IsObj(o) /\ \E j \in 1..Len(o.kv) : o.kv[j][1] = k
\* o[k]: undefined when o has no such property (or is no object)
Get(o, k) ==
    IF HasKey(o, k)
    THEN o.kv[CHOOSE j \in 1..Len(o.kv) : o.kv[j][1] = k][2]
    ELSE Undef
\* { ...o, k: v } : an existing key keeps its position and takes the new value
Put(o, k, v) ==
    IF HasKey(o, k)
    THEN Obj([j \in 1..Len(o.kv) |-> IF o.kv[j][1] = k THEN <<k, v>> ELSE o.kv[j]])
    ELSE Obj(Append(o.kv, <<k, v>>))
RECURSIVE Spread(_, _)
\* { ...o, ...r }
Spread(o, r) ==
    IF ~IsObj(r) \/ r.kv = <<>> THEN o
    ELSE Spread(Put(o, r.kv[1][1], r.kv[1][2]), Obj(Tail(r.kv)))

\* Math.round: to the nearest integer, halves towards +infinity
MathRound(v) == Num((v.n2 + 1) \div 2)

\* ------------------------------------------------------------- the inputs
Formats == {"json", "csv", "individual"}
Tasks == {"<OD>", "<OCR_WITH_REGION>", "<CAPTION>"}

\* images[k].name
ImageName(k) == <<"i", "m", "g", ToString(k)>>
\* error.message of what inference throws
ErrorMessages == {<<"b", "o", "o", "m">>, <<"n", "o", " ", "g", "p", "u">>}

LabelText(j) == IF j = 1 THEN <<"c", "a", "t">> ELSE <<"a", ",", "b", ToString(j)>>
\* box j of a detection result, in half units: [xmin, ymin, xmax, ymax]
BBox(j) == Arr(<<Half(2 * j + 1), Half(3), Half(2 * j + 9), Half(14)>>)
QuadBox(j) ==
    Arr(<<Half(2 * j), Half(2), Half(2 * j + 8), Half(3),
          Half(2 * j + 9), Half(12), Half(2 * j + 1), Half(11)>>)

\* result[task] as post_process_generation returns it for the task
RawResult(tsk, n) ==
    CASE tsk = "<OD>" ->
           Obj(<<<<"bboxes", Arr([j \in 1..n |-> BBox(j)])>>,
                 <<"labels", Arr([j \in 1..n |-> Str(LabelText(j))])>>>>)
      [] tsk = "<OCR_WITH_REGION>" ->
           Obj(<<<<"quad_boxes", Arr([j \in 1..n |-> QuadBox(j)])>>,
                 <<"labels", Arr([j \in 1..n |-> Str(LabelText(j))])>>>>)
      [] OTHER -> Str(IF n = 0 THEN <<>> ELSE <<"a", " ", "\"", "c", "\"">>)

VARIABLES
    \* App.jsx (main thread)
    status,           \* 'ready' | 'running'
    batchImages,      \* number of selected files; file k is named ImageName(k)
    outputFormat,
    task,
    batchProgress,    \* {current, total}
    processingStats,  \* null or {total, totalTime}
    streamingWriter,  \* streamingWriter.current is set
    clicked,          \* the run of this behaviour has been started or cancelled
    setupError,       \* err.name of what handleClick caught, "none" if nothing
    alerted,          \* handleClick has shown its error dialog
    recvd,            \* number of worker messages onMessageReceived has handled
    \* worker.js
    wpc,              \* "idle" | "start" | "infer" | "done"
    i,                \* the loop index (0-based)
    processedCount,
    clock,            \* performance.now() of the worker
    sent,             \* every message the worker has posted, in order
    \* the writer object and its sink
    writer,
    calls,            \* the async method calls made on the writer, in call order
    stream,           \* the writable of the single output file: state and queue
    file,             \* what has been written through the writable, in order
    files,            \* per-item files of the directory: name -> content
    \* imageCropping.js: one call of cropAndSaveImagesStreaming
    csvData,          \* the records handed in
    imageFiles,       \* the names of the image files handed in
    cpc,              \* "idle" | "called" | "group" | "load" | "records" | "returned"
    groupedData,      \* Object.entries(groupedData): <<filename, rows>> in insertion order
    g,                \* the entry the for-of loop is at (from 1)
    index,            \* the index of the inner loop (0-based)
    processedImages,
    saved,
    failed,
    skipped,
    progressCalls,    \* the calls of progressCallback, in order
    imageDirHandles,  \* the base names whose directory handle is cached
    outputDir,        \* the output directory: its subdirectories and their files
    verdicts,         \* which record or group each counter increment was for
    \* imageCropping.js (cropRegion on its own)
    cropBox,          \* the bbox argument: {xmin, ymin, xmax, ymax}
    imageExtent,      \* imageWidth, imageHeight
    kpc,              \* "idle" | "given" | "clamped" | "again"
    clamped,          \* the clamped coordinates of cropBox
    reclamped,        \* the clamped coordinates of the clamped box
    \* worker.js (Florence2Singleton)
    instance,         \* "pending" | "loaded" | "ready" | "rejected": the cached promises
    \* single-image mode: App.jsx and worker.js
    image,            \* the image state of App: null or the url of the chosen image
    inbox,            \* the messages posted to the worker and not yet handled
    vision_inputs,    \* the worker's cached `vision_inputs`
    image_size,       \* the worker's `image_size`
    handled,          \* the 'reset' and 'run' messages handled, each run with its progress
    outbox,           \* the 'complete' messages posted and not yet handled
    \* imageCropping.js (parseCSV) and the CSV serialization
    table,            \* the header line and the rows of cells the CSV text is made of
    ppc,              \* "idle" | "given" | "parsed" | "written" | "reparsed"
    parsed,           \* parseCSV(csvContent)
    serialized,       \* the CSV text serialized from `parsed`
    reparsed          \* parseCSV(serialized)

appVars == <<status, batchImages, outputFormat, task, batchProgress,
             processingStats, streamingWriter, clicked, setupError, alerted, recvd>>
workerVars == <<wpc, i, processedCount, clock, sent>>
sinkVars == <<writer, calls, stream, file, files>>
extractorVars == <<csvData, imageFiles, cpc, groupedData, g, index, processedImages, saved,
                   failed, skipped, progressCalls, imageDirHandles, outputDir, verdicts>>
clampVars == <<cropBox, imageExtent, kpc, clamped, reclamped>>
loadVars == <<instance>>
runVars == <<image, inbox, vision_inputs, image_size, handled, outbox>>
parseVars == <<table, ppc, parsed, serialized, reparsed>>
asideVars == <<loadVars, runVars, parseVars>>
cropVars == <<extractorVars, clampVars, asideVars>>
vars == <<appVars, workerVars, sinkVars, cropVars>>

\* ------------------------------------------------------------ text helpers
Includes(s, c) == \E j \in 1..Len(s) : s[j] = c
RECURSIVE DoubleQuotes(_)
\* value.replace(/"/g, '""')
DoubleQuotes(s) ==
    IF s = <<>> THEN <<>>
    ELSE (IF Head(s) = "\"" THEN <<"\"", "\"">> ELSE <<Head(s)>>) \o DoubleQuotes(Tail(s))
RECURSIVE JoinWith(_, _)
\* parts.join(sep), each part a text
JoinWith(parts, sep) ==
    IF parts = <<>> THEN <<>>
    ELSE IF Len(parts) = 1 THEN parts[1]
    ELSE parts[1] \o <<sep>> \o JoinWith(Tail(parts), sep)
\* String(n) of a number: an integer or a half
NumText(v) ==
    LET a == IF v.n2 < 0 THEN 0 - v.n2 ELSE v.n2
        sign == IF v.n2 < 0 THEN <<"-">> ELSE <<>>
    IN  sign \o <<ToString(a \div 2)>> \o (IF a % 2 = 1 THEN <<".", "5">> ELSE <<>>)

RECURSIVE StringifyText(_)
\* JSON.stringify(v), compact: the text. Inside a string a quote is escaped
\* with a backslash; an undefined property is left out, an undefined array
\* element is null.
StringifyText(v) ==
    LET EscapeJson(s) ==
            LET RECURSIVE E(_)
                E(r) == IF r = <<>> THEN <<>>
                        ELSE (IF Head(r) = "\"" THEN <<"\\", "\"">> ELSE <<Head(r)>>) \o E(Tail(r))
            IN  E(s)
    IN
    CASE v.t = "str" -> <<"\"">> \o EscapeJson(v.s) \o <<"\"">>
      [] v.t = "num" -> NumText(v)
      [] v.t = "null" -> <<"null">>
      [] v.t = "undef" -> <<"null">>
      [] v.t = "arr" ->
           <<"[">> \o JoinWith([j \in 1..Len(v.es) |-> StringifyText(v.es[j])], ",") \o <<"]">>
      [] OTHER ->
           LET present == SelectSeq(v.kv, LAMBDA p : p[2].t # "undef")
           IN  <<"{">> \o JoinWith([j \in 1..Len(present) |->
                                      <<"\"", present[j][1], "\"", ":">> \o StringifyText(present[j][2])], ",")
                       \o <<"}">>

\* ----------------------------------------------------- the writable stream
\* The FileSystemWritableFileStream the JSON and CSV writers hold: write()
\* and close() are queued and take effect in call order; once close() has been
\* called the stream accepts no write (the promise write() returns rejects).
NoStream == [state |-> "none", queue |-> <<>>]
OpenStream == [state |-> "open", queue |-> <<>>]
CloseMark == [k |-> "close()"]
\* this.writable.write(chunk) by call id: [ok, st]
StreamWrite(st, chunk, id) ==
    IF st.state = "open"
    THEN [ok |-> TRUE, st |-> [st EXCEPT !.queue = Append(@, [chunk |-> chunk, by |-> id])]]
    ELSE [ok |-> FALSE, st |-> st]
\* this.writable.close() by call id
StreamClose(st, id) ==
    IF st.state = "open"
    THEN [ok |-> TRUE,
          st |-> [state |-> "closing", queue |-> Append(st.queue, [chunk |-> CloseMark, by |-> id])]]
    ELSE [ok |-> FALSE, st |-> st]

\* ------------------------------------------------------------ the writers
\* new StreamingJSONWriter(fileHandle) etc.: the fields the constructors set;
\* a field a class does not have stays at its default here.
NewWriter(kind) ==
    [kind |-> kind,
     writable |-> FALSE,
     isFirst |-> TRUE,
     task |-> IF kind = "individual" THEN Null ELSE Undef,
     headers |-> Null,
     rowId |-> 0,
     dirHandle |-> (kind = "individual")]

\* the ResultItem handed to writeResult
ResultItem(filename, result, rawResult, time, error) ==
    [filename |-> filename, result |-> result, rawResult |-> rawResult,
     time |-> time, error |-> error]
NoItem == ResultItem(<<>>, Undef, Undef, Undef, Undef)

\* one async call on the writer
Call(op, item, pc, rows, outcome) ==
    [op |-> op, item |-> item, pc |-> pc, rows |-> rows, outcome |-> outcome]
NotInitialized == "Writer not initialized"
StreamRejected == "TypeError: stream closed"

\* the text chunks of the aggregate JSON file
OpenBracket == [k |-> "[\n"]
Separator == [k |-> ",\n"]
CloseBracket == [k |-> "\n]\n"]

\* resultObject of StreamingJSONWriter and StreamingIndividualWriter, as
\* JSON.stringify keeps it: a property whose value is undefined is left out,
\* and error is spread in only when it is truthy.
ResultObject(w, item) ==
    LET base == Obj(<<<<"filename", Str(item.filename)>>,
                      <<"task", w.task>>,
                      <<"result", IF Truthy(item.rawResult) THEN item.rawResult ELSE item.result>>,
                      <<"time", item.time>>>>)
        full == IF Truthy(item.error) THEN Put(base, "error", item.error) ELSE base
    IN  Obj(SelectSeq(full.kv, LAMBDA p : p[2].t # "undef"))
RecordChunk(w, item) == [k |-> "record", obj |-> ResultObject(w, item)]

\* --------------------------------------------------- StreamingCSVWriter rows
\* arr[j] for a 0-based j: undefined past the end
Elem(arr, j) == IF IsArr(arr) /\ j + 1 <= Len(arr.es) THEN arr.es[j + 1] ELSE Undef
Length(arr) == IF IsArr(arr) THEN Len(arr.es) ELSE 0

QuadRow(id, item, j) ==
    LET q == Elem(Get(item.result, "quad_boxes"), j)
    IN  Obj(<<<<"id", Num(id)>>, <<"filename", Str(item.filename)>>,
              <<"label", Elem(Get(item.result, "labels"), j)>>,
              <<"x1", Elem(q, 0)>>, <<"y1", Elem(q, 1)>>, <<"x2", Elem(q, 2)>>,
              <<"y2", Elem(q, 3)>>, <<"x3", Elem(q, 4)>>, <<"y3", Elem(q, 5)>>,
              <<"x4", Elem(q, 6)>>, <<"y4", Elem(q, 7)>>>>)
BBoxRow(id, item, j) ==
    LET b == Elem(Get(item.result, "bboxes"), j)
    IN  Obj(<<<<"id", Num(id)>>, <<"filename", Str(item.filename)>>,
              <<"label", Elem(Get(item.result, "labels"), j)>>,
              <<"xmin", Elem(b, 0)>>, <<"ymin", Elem(b, 1)>>,
              <<"xmax", Elem(b, 2)>>, <<"ymax", Elem(b, 3)>>>>)

\* flatItems of writeResult and the row counter after it: this.rowId++ once
\* per flattened row
Flatten(w, item) ==
    LET res == item.result
        n == Length(Get(res, "labels"))
    IN
    IF Truthy(res) /\ Truthy(Get(res, "labels")) /\ Truthy(Get(res, "quad_boxes"))
    THEN [rows |-> [j \in 1..n |-> QuadRow(w.rowId + j - 1, item, j - 1)], rowId |-> w.rowId + n]
    ELSE IF Truthy(res) /\ Truthy(Get(res, "labels")) /\ Truthy(Get(res, "bboxes"))
    THEN [rows |-> [j \in 1..n |-> BBoxRow(w.rowId + j - 1, item, j - 1)], rowId |-> w.rowId + n]
    ELSE IF IsArr(res)
    THEN [rows |-> [j \in 1..Len(res.es) |->
                      Spread(Obj(<<<<"id", Num(w.rowId + j - 1)>>>>), res.es[j])],
          rowId |-> w.rowId + Len(res.es)]
    ELSE IF Truthy(res) /\ IsObj(res)
    THEN [rows |-> <<Obj(<<<<"id", Num(w.rowId)>>, <<"filename", Str(item.filename)>>,
                           <<"result", Str(StringifyText(res))>>>>)>>,
          rowId |-> w.rowId + 1]
    ELSE [rows |-> <<Obj(<<<<"id", Num(w.rowId)>>, <<"filename", Str(item.filename)>>,
                           <<"result", res>>>>)>>,
          rowId |-> w.rowId + 1]

\* String(v), as Array.prototype.join applies it to a cell
RECURSIVE ToText(_)
ToText(v) ==
    CASE v.t = "str" -> v.s
      [] v.t = "num" -> NumText(v)
      [] v.t = "arr" -> JoinWith([j \in 1..Len(v.es) |-> ToText(v.es[j])], ",")
      [] v.t = "obj" -> <<"[object Object]">>
      [] OTHER -> <<>>
\* one cell of a row: a string holding a comma or a quote is wrapped in
\* quotes with its quotes doubled; null and undefined give the empty text
CellText(v) ==
    IF IsStr(v) /\ (Includes(v.s, ",") \/ Includes(v.s, "\""))
    THEN <<"\"">> \o DoubleQuotes(v.s) \o <<"\"">>
    ELSE ToText(v)
HeaderChunk(headers) ==
    [k |-> "header", cells |-> headers,
     text |-> JoinWith([j \in 1..Len(headers) |-> <<headers[j]>>], ",") \o <<"\n">>]
RowChunk(headers, flatItem) ==
    LET cells == [j \in 1..Len(headers) |-> CellText(Get(flatItem, headers[j]))]
    IN  [k |-> "row", cells |-> cells, text |-> JoinWith(cells, ",") \o <<"\n">>]

\* ------------------------------------------------- the methods, step by step
\* Every operator below runs one method from a call or an await to the next
\* await (or to its end) and gives the writer, the stream and the call after
\* it. pc names the await the call is suspended at.
Step(w, st, call) == [w |-> w, st |-> st, call |-> call]
Settled(w, st, op, item, outcome) == Step(w, st, Call(op, item, "done", <<>>, outcome))
\* await this.writable.write(chunk), then continue at pc
AwaitWrite(w, st, id, chunk, op, item, pc, rows) ==
    LET r == StreamWrite(st, chunk, id)
    IN  IF r.ok THEN Step(w, r.st, Call(op, item, pc, rows, "pending"))
        ELSE Settled(w, st, op, item, StreamRejected)

\* writeResult without `this.isFirst = false`
JsonRecordKeepsFirst(w, st, id, item) ==
    AwaitWrite(w, st, id, RecordChunk(w, item), "writeResult", item, "record", <<>>)
\* StreamingJSONWriter.writeResult from `this.isFirst = false` on
JsonRecord(w, st, id, item) ==
    LET w2 == [w EXCEPT !.isFirst = FALSE]
    IN  AwaitWrite(w2, st, id, RecordChunk(w2, item), "writeResult", item, "record", <<>>)
\* StreamingJSONWriter.writeResult from the call
JsonWriteResult(w, st, id, item) ==
    IF ~w.writable THEN Settled(w, st, "writeResult", item, NotInitialized)
    ELSE IF ~w.isFirst
    THEN AwaitWrite(w, st, id, Separator, "writeResult", item, "separator", <<>>)
    ELSE JsonRecord(w, st, id, item)

\* StreamingCSVWriter.writeResult: the row write of the current flatItem
CsvRow(w, st, id, item, rows) ==
    AwaitWrite(w, st, id, RowChunk(w.headers.es, rows[1]), "writeResult", item, "row", rows)
\* a loop that writes a fresh header whenever a row's keys differ from it
CsvLoopReheader(w, st, id, item, rows) ==
    IF rows = <<>> THEN Settled(w, st, "writeResult", item, "ok")
    ELSE IF ~Truthy(w.headers) \/ w.headers.es # Keys(rows[1])
    THEN LET w2 == [w EXCEPT !.headers = Arr(Keys(rows[1]))]
         IN  AwaitWrite(w2, st, id, HeaderChunk(w2.headers.es), "writeResult", item, "header", rows)
    ELSE CsvRow(w, st, id, item, rows)
\* StreamingCSVWriter.writeResult: the top of `for (const flatItem of flatItems)`
CsvLoop(w, st, id, item, rows) ==
    IF rows = <<>> THEN Settled(w, st, "writeResult", item, "ok")
    ELSE IF ~Truthy(w.headers)
    THEN LET w2 == [w EXCEPT !.headers = Arr(Keys(rows[1]))]
         IN  AwaitWrite(w2, st, id, HeaderChunk(w2.headers.es), "writeResult", item, "header", rows)
    ELSE CsvRow(w, st, id, item, rows)
\* StreamingCSVWriter.writeResult from the call
CsvWriteResult(w, st, id, item) ==
    IF ~w.writable THEN Settled(w, st, "writeResult", item, NotInitialized)
    ELSE LET f == Flatten(w, item)
         IN  CsvLoop([w EXCEPT !.rowId = f.rowId], st, id, item, f.rows)

\* StreamingIndividualWriter.writeResult from the call to its first await;
\* the call keeps the resultObject it built in rows
IndividualWriteResult(w, st, id, item) ==
    IF ~w.dirHandle THEN Settled(w, st, "writeResult", item, NotInitialized)
    ELSE Step(w, st, Call("writeResult", item, "getFileHandle", <<ResultObject(w, item)>>, "pending"))

WriteResult(w, st, id, item) ==
    CASE w.kind = "json" -> JsonWriteResult(w, st, id, item)
      [] w.kind = "csv" -> CsvWriteResult(w, st, id, item)
      [] OTHER -> IndividualWriteResult(w, st, id, item)

\* await this.writable.close()
AwaitClose(w, st, id) ==
    LET r == StreamClose(st, id)
    IN  IF r.ok THEN Step(w, r.st, Call("finalize", NoItem, "close", <<>>, "pending"))
        ELSE Settled(w, st, "finalize", NoItem, StreamRejected)
\* a finalize that throws where writeResult does
FinalizeThrows(w, st, id) ==
    IF ~w.writable THEN Settled(w, st, "finalize", NoItem, NotInitialized)
    ELSE IF w.kind = "json"
    THEN AwaitWrite(w, st, id, CloseBracket, "finalize", NoItem, "bracket", <<>>)
    ELSE AwaitClose(w, st, id)
\* finalize() from the call: to its end, or to the first await that suspends
\* it. `await Promise.all(this.pendingWrites)` awaits the empty list (the
\* constructor and initialize assign [] and nothing ever adds to it), so it
\* gives way to nothing but the microtasks already queued.
Finalize(w, st, id) ==
    IF w.kind = "individual" THEN Settled(w, st, "finalize", NoItem, "ok")
    ELSE IF ~w.writable THEN Settled(w, st, "finalize", NoItem, "ok")
    ELSE IF w.kind = "json"
    THEN AwaitWrite(w, st, id, CloseBracket, "finalize", NoItem, "bracket", <<>>)
    ELSE AwaitClose(w, st, id)

\* initialize(task): createWritable, the opening bracket, the fields
Initialize(w, tsk) ==
    CASE w.kind = "json" -> [w EXCEPT !.writable = TRUE, !.task = Str(<<tsk>>), !.isFirst = TRUE]
      [] w.kind = "csv" -> [w EXCEPT !.writable = TRUE, !.headers = Null, !.rowId = 0]
      [] OTHER -> [w EXCEPT !.task = Str(<<tsk>>)]
InitialFile(kind) == IF kind = "json" THEN <<[chunk |-> OpenBracket, by |-> 0]>> ELSE <<>>
InitialStream(kind) == IF kind = "individual" THEN NoStream ELSE OpenStream

\* the continuation of call id after the write or close it awaits is done
Resume(w, st, id, call) ==
    CASE call.pc = "separator" -> JsonRecord(w, st, id, call.item)
      [] call.pc = "record" -> Settled(w, st, "writeResult", call.item, "ok")
      [] call.pc = "header" -> CsvRow(w, st, id, call.item, call.rows)
      [] call.pc = "row" -> CsvLoop(w, st, id, call.item, Tail(call.rows))
      [] call.pc = "bracket" -> AwaitClose(w, st, id)
      [] OTHER -> Settled([w EXCEPT !.writable = FALSE], st, "finalize", NoItem, "ok")

\* createStreamingWriter(format, task) once the destination has been picked
CreateStreamingWriter(format, tsk) == Initialize(NewWriter(format), tsk)

\* ------------------------------------------------------------- worker.js
\* a progress event counting from 0
ProgressMessageFromZero(idx, total) ==
    [status |-> "batch-progress", current |-> idx, total |-> total,
     filename |-> ImageName(idx + 1)]
ProgressMessage(idx, total) ==
    [status |-> "batch-progress", current |-> idx + 1, total |-> total,
     filename |-> ImageName(idx + 1)]
CompleteMessage(count, totalTime) ==
    [status |-> "batch-complete", total |-> count, totalTime |-> totalTime]
\* `output`: result[task], or for a result with bboxes one flat object per box
\* with rounded coordinates
WorkerOutput(raw, name) ==
    IF Truthy(raw) /\ Truthy(Get(raw, "bboxes"))
    THEN LET boxes == Get(raw, "bboxes")
             labels == Get(raw, "labels")
         IN  Arr([j \in 1..Length(boxes) |->
                    Obj(<<<<"label", IF Truthy(labels) THEN Elem(labels, j - 1) ELSE Str(<<>>)>>,
                          <<"xmin", MathRound(Elem(boxes.es[j], 0))>>,
                          <<"ymin", MathRound(Elem(boxes.es[j], 1))>>,
                          <<"xmax", MathRound(Elem(boxes.es[j], 2))>>,
                          <<"ymax", MathRound(Elem(boxes.es[j], 3))>>,
                          <<"image", Str(name)>>>>)])
    ELSE raw
\* the batch-result of the try block
ResultMessage(idx, raw, elapsed) ==
    [status |-> "batch-result", filename |-> ImageName(idx + 1),
     result |-> WorkerOutput(raw, ImageName(idx + 1)), rawResult |-> raw,
     time |-> Num(elapsed)]
\* the batch-result of the catch block
ErrorResultMessage(idx, message) ==
    [status |-> "batch-result", filename |-> ImageName(idx + 1),
     error |-> Str(message), time |-> Num(0)]

\* a completion that reports `images.length` for `processedCount`
LoopTopCountingAll(idx, total, count, now, msgs) ==
    IF idx < total
    THEN [wpc |-> "infer", sent |-> Append(msgs, ProgressMessage(idx, total))]
    ELSE [wpc |-> "done", sent |-> Append(msgs, CompleteMessage(total, now))]
\* the worker from the loop condition of index idx to its next await: the
\* progress event and the suspension in the try block, or the completion
LoopTop(idx, total, count, now, msgs) ==
    IF idx < total
    THEN [wpc |-> "infer", sent |-> Append(msgs, ProgressMessage(idx, total))]
    ELSE [wpc |-> "done", sent |-> Append(msgs, CompleteMessage(count, now))]
\* the worker after the try block of item idx has posted its batch-result
AfterItem(idx, total, count, now, msgs, msg) ==
    LoopTop(idx + 1, total, count, now, Append(msgs, msg))
\* a run without the catch: the exception leaves runBatch and nothing more
\* is posted
AfterThrowUncaught(idx, total, count, now, msgs, message) ==
    [wpc |-> "done", sent |-> msgs]
\* the worker after item idx has thrown: the catch block posts the error
\* result and the loop goes on
AfterThrow(idx, total, count, now, msgs, message) ==
    LoopTop(idx + 1, total, count, now, Append(msgs, ErrorResultMessage(idx, message)))

\* case 'run-batch': runBatch(data), up to the first item's inference
RunBatch ==
    /\ wpc = "start"
    /\ instance \in {"loaded", "ready"}
    /\ LET r == LoopTop(0, batchImages, 0, 0, sent)
       IN  /\ wpc' = r.wpc
           /\ sent' = r.sent
    /\ i' = 0
    /\ processedCount' = 0
    /\ clock' = 0
    /\ UNCHANGED <<appVars, sinkVars>>
    /\ UNCHANGED cropVars

\* inference of item i returns raw after `elapsed` ms
InferReturns(raw, elapsed) ==
    /\ wpc = "infer"
    /\ LET r == AfterItem(i, batchImages, processedCount + 1, clock + elapsed, sent,
                          ResultMessage(i, raw, elapsed))
       IN  /\ wpc' = r.wpc
           /\ sent' = r.sent
    /\ i' = i + 1
    /\ processedCount' = processedCount + 1
    /\ clock' = clock + elapsed
    /\ UNCHANGED <<appVars, sinkVars>>
    /\ UNCHANGED cropVars
\* inference of item i throws an error with this message after `elapsed` ms
InferThrows(message, elapsed) ==
    /\ wpc = "infer"
    /\ LET r == AfterThrow(i, batchImages, processedCount, clock + elapsed, sent, message)
       IN  /\ wpc' = r.wpc
           /\ sent' = r.sent
    /\ i' = i + 1
    /\ clock' = clock + elapsed
    /\ UNCHANGED <<processedCount, appVars, sinkVars>>
    /\ UNCHANGED cropVars
\* end - start of one inference: the longer the more the model generates;
\* a failing one gives up at once
Elapsed(n) == n + 1
Infer ==
    \/ \E n \in 0..MaxLabels : InferReturns(RawResult(task, n), Elapsed(n))
    \/ \E message \in ErrorMessages : InferThrows(message, Elapsed(0))

\* --------------------------------------------------------------- App.jsx
NoStats == [set |-> FALSE, total |-> 0, totalTime |-> 0]
Stats(m) == [set |-> TRUE, total |-> m.total, totalTime |-> m.totalTime]
Field(m, k) == IF k \in DOMAIN m THEN m[k] ELSE Undef
\* the object the batch-result case hands to writeResult
ItemOfMessage(m) ==
    ResultItem(m.filename, Field(m, "result"), Field(m, "rawResult"),
               Field(m, "time"), Field(m, "error"))

\* What the destination prompt of the factory comes to: the user picks a
\* destination, dismisses the prompt (the picker rejects with an AbortError),
\* or the picker or createWritable rejects for another reason.
PromptOutcomes == {"picked", "AbortError", "NotAllowedError"}
\* err.name of what createStreamingWriter(format, task) throws, "none" when it
\* returns the writer; a format that is none of the three throws a plain Error
\* before any prompt
FactoryError(format, outcome) ==
    IF format \notin Formats THEN "Error"
    ELSE IF outcome = "picked" THEN "none"
    ELSE outcome
\* a catch block that shows the dialog for every error
SetupFailedAlways(name) == [alert |-> TRUE]
\* the catch block of handleClick: silent for AbortError, the dialog otherwise;
\* both return
SetupFailed(name) == [alert |-> name # "AbortError"]

\* handleClick, batch branch: the destination prompt, the writer, run-batch
HandleClick ==
    /\ ~clicked
    /\ status # "running"
    /\ batchImages > 0
    /\ clicked' = TRUE
    /\ \E outcome \in PromptOutcomes :
        IF FactoryError(outputFormat, outcome) = "none"
        THEN /\ writer' = CreateStreamingWriter(outputFormat, task)
             /\ stream' = InitialStream(outputFormat)
             /\ file' = InitialFile(outputFormat)
             /\ streamingWriter' = TRUE
             /\ status' = "running"
             /\ processingStats' = NoStats
             /\ batchProgress' = [current |-> 0, total |-> batchImages, filename |-> <<>>]
             /\ wpc' = "start"
             /\ UNCHANGED <<batchImages, outputFormat, task, setupError, alerted, recvd,
                            i, processedCount, clock, sent, calls, files>>
        ELSE /\ setupError' = FactoryError(outputFormat, outcome)
             /\ alerted' = SetupFailed(FactoryError(outputFormat, outcome)).alert
             /\ UNCHANGED <<status, batchImages, outputFormat, task, batchProgress,
                            processingStats, streamingWriter, recvd, workerVars, sinkVars>>
    /\ UNCHANGED cropVars

NextMessage == sent[recvd + 1]
\* case 'batch-progress'
OnBatchProgress ==
    /\ recvd < Len(sent)
    /\ NextMessage.status = "batch-progress"
    /\ batchProgress' = [current |-> NextMessage.current, total |-> NextMessage.total,
                         filename |-> NextMessage.filename]
    /\ recvd' = recvd + 1
    /\ UNCHANGED <<status, batchImages, outputFormat, task, processingStats,
                   streamingWriter, clicked, setupError, alerted, workerVars, sinkVars>>
    /\ UNCHANGED cropVars

\* case 'batch-result': writeResult is called and not awaited
OnBatchResult ==
    /\ recvd < Len(sent)
    /\ NextMessage.status = "batch-result"
    /\ recvd' = recvd + 1
    /\ IF streamingWriter
       THEN LET r == WriteResult(writer, stream, Len(calls) + 1, ItemOfMessage(NextMessage))
            IN  /\ writer' = r.w
                /\ stream' = r.st
                /\ calls' = Append(calls, r.call)
       ELSE UNCHANGED <<writer, stream, calls>>
    /\ UNCHANGED <<status, batchImages, outputFormat, task, batchProgress, processingStats,
                   streamingWriter, clicked, setupError, alerted, workerVars, file, files>>
    /\ UNCHANGED cropVars

\* finalize().then(...).catch(...) of the batch-complete case, once the
\* finalize call has settled with this outcome; m is the batch-complete message
FinalizeSettled(outcome, m) ==
    IF outcome = "ok"
    THEN /\ streamingWriter' = FALSE
         /\ processingStats' = Stats(m)
         /\ status' = "ready"
    ELSE /\ status' = "ready"
         /\ UNCHANGED <<streamingWriter, processingStats>>

\* a batch-complete case that shows the summary without waiting for finalize
OnBatchCompleteEager ==
    /\ recvd < Len(sent)
    /\ sent[recvd + 1].status = "batch-complete"
    /\ recvd' = recvd + 1
    /\ IF streamingWriter
       THEN LET r == Finalize(writer, stream, Len(calls) + 1)
            IN  /\ writer' = r.w
                /\ stream' = r.st
                /\ calls' = Append(calls, r.call)
                /\ processingStats' = Stats(sent[recvd + 1])
                /\ status' = "ready"
                /\ UNCHANGED streamingWriter
       ELSE /\ status' = "ready"
            /\ UNCHANGED <<writer, stream, calls, processingStats, streamingWriter>>
    /\ UNCHANGED <<batchImages, outputFormat, task, batchProgress, clicked, setupError,
                   alerted, workerVars, file, files>>
    /\ UNCHANGED cropVars
\* case 'batch-complete'
OnBatchComplete ==
    /\ recvd < Len(sent)
    /\ NextMessage.status = "batch-complete"
    /\ recvd' = recvd + 1
    /\ IF streamingWriter
       THEN LET r == Finalize(writer, stream, Len(calls) + 1)
            IN  /\ writer' = r.w
                /\ stream' = r.st
                /\ calls' = Append(calls, r.call)
                /\ IF r.call.pc = "done"
                   THEN FinalizeSettled(r.call.outcome, NextMessage)
                   ELSE UNCHANGED <<status, processingStats, streamingWriter>>
       ELSE /\ status' = "ready"
            /\ UNCHANGED <<writer, stream, calls, processingStats, streamingWriter>>
    /\ UNCHANGED <<batchImages, outputFormat, task, batchProgress, clicked, setupError,
                   alerted, workerVars, file, files>>
    /\ UNCHANGED cropVars

\* ----------------------------------------------------- the sink at work
\* The write or close at the head of the stream's queue takes effect, and
\* the call that awaits it runs on to its next await.
StreamDone ==
    /\ stream.queue # <<>>
    /\ LET head == Head(stream.queue)
           closes == head.chunk = CloseMark
           st1 == [state |-> IF closes THEN "closed" ELSE stream.state,
                   queue |-> Tail(stream.queue)]
           r == Resume(writer, st1, head.by, calls[head.by])
       IN  /\ file' = IF closes THEN file ELSE Append(file, head)
           /\ writer' = r.w
           /\ stream' = r.st
           /\ calls' = [calls EXCEPT ![head.by] = r.call]
           /\ IF streamingWriter /\ r.call.op = "finalize" /\ r.call.pc = "done"
              THEN FinalizeSettled(r.call.outcome, sent[recvd])
              ELSE UNCHANGED <<status, processingStats, streamingWriter>>
    /\ UNCHANGED <<batchImages, outputFormat, task, batchProgress, clicked, setupError,
                   alerted, recvd, workerVars, files>>
    /\ UNCHANGED cropVars

\* The file the save picker gave, as it is on disk. The writable that
\* createWritable() returns writes to a swap file, which replaces the file
\* only when close() takes effect; until then the file is what it was when it
\* was picked: a new, empty file.
Destination == IF stream.state = "closed" THEN file ELSE <<>>

EmptyFile == [k |-> "empty"]
\* a writeResult that names the file after the item alone, without `.json`
IndividualStepBareName(c) ==
    /\ calls[c].op = "writeResult"
    /\ calls[c].pc \in {"getFileHandle", "createWritable", "write", "close"}
    /\ LET call == calls[c]
           name == call.item.filename
       IN  CASE call.pc = "getFileHandle" ->
                  /\ files' = IF name \in DOMAIN files THEN files ELSE (name :> EmptyFile) @@ files
                  /\ calls' = [calls EXCEPT ![c].pc = "createWritable"]
             [] call.pc = "createWritable" ->
                  /\ calls' = [calls EXCEPT ![c].pc = "write"]
                  /\ UNCHANGED files
             [] call.pc = "write" ->
                  /\ calls' = [calls EXCEPT ![c].pc = "close"]
                  /\ UNCHANGED files
             [] OTHER ->
                  /\ files' = (name :> [k |-> "record", obj |-> call.rows[1]]) @@ files
                  /\ calls' = [calls EXCEPT ![c] = Call("writeResult", call.item, "done", <<>>, "ok")]
    /\ UNCHANGED <<appVars, workerVars, writer, stream, file>>
    /\ UNCHANGED cropVars
\* StreamingIndividualWriter.writeResult, one await of call c after the other:
\* getFileHandle(create) makes the file, close() puts the written text in it
IndividualStep(c) ==
    /\ calls[c].op = "writeResult"
    /\ calls[c].pc \in {"getFileHandle", "createWritable", "write", "close"}
    /\ LET call == calls[c]
           name == call.item.filename \o <<".json">>
       IN  CASE call.pc = "getFileHandle" ->
                  /\ files' = IF name \in DOMAIN files THEN files ELSE (name :> EmptyFile) @@ files
                  /\ calls' = [calls EXCEPT ![c].pc = "createWritable"]
             [] call.pc = "createWritable" ->
                  /\ calls' = [calls EXCEPT ![c].pc = "write"]
                  /\ UNCHANGED files
             [] call.pc = "write" ->
                  /\ calls' = [calls EXCEPT ![c].pc = "close"]
                  /\ UNCHANGED files
             [] OTHER ->
                  /\ files' = (name :> [k |-> "record", obj |-> call.rows[1]]) @@ files
                  /\ calls' = [calls EXCEPT ![c] = Call("writeResult", call.item, "done", <<>>, "ok")]
    /\ UNCHANGED <<appVars, workerVars, writer, stream, file>>
    /\ UNCHANGED cropVars
IndividualDone == \E c \in 1..Len(calls) : IndividualStep(c)

\* cropAndSaveImagesStreaming has not been called
NoOutput == [dirs |-> {}, files |-> <<>>]
CropIdle ==
    /\ csvData = <<>>
    /\ imageFiles = {}
    /\ cpc = "idle"
    /\ groupedData = <<>>
    /\ g = 1
    /\ index = 0
    /\ processedImages = 0
    /\ saved = 0
    /\ failed = 0
    /\ skipped = 0
    /\ progressCalls = <<>>
    /\ imageDirHandles = {}
    /\ outputDir = NoOutput
    /\ verdicts = <<>>

\* cropRegion has not been called
ClampIdle ==
    /\ cropBox = Undef
    /\ imageExtent = Undef
    /\ kpc = "idle"
    /\ clamped = Undef
    /\ reclamped = Undef

\* the model has been loaded: load() has posted 'ready'
AsideIdle ==
    /\ instance = "ready"
    /\ image = Null
    /\ inbox = <<>>
    /\ vision_inputs = Undef
    /\ image_size = Undef
    /\ handled = <<>>
    /\ outbox = <<>>
    /\ table = Undef
    /\ ppc = "idle"
    /\ parsed = <<>>
    /\ serialized = <<>>
    /\ reparsed = <<>>

\* ------------------------------------------------------ the batch run
Init ==
    /\ status = "ready"
    /\ batchImages \in 0..MaxItems
    /\ outputFormat \in Formats
    /\ task \in Tasks
    /\ batchProgress = [current |-> 0, total |-> 0, filename |-> <<>>]
    /\ processingStats = NoStats
    /\ streamingWriter = FALSE
    /\ clicked = FALSE
    /\ setupError = "none"
    /\ alerted = FALSE
    /\ recvd = 0
    /\ wpc = "idle"
    /\ i = 0
    /\ processedCount = 0
    /\ clock = 0
    /\ sent = <<>>
    /\ writer = NewWriter(outputFormat)
    /\ calls = <<>>
    /\ stream = NoStream
    /\ file = <<>>
    /\ files = <<>>
    /\ CropIdle
    /\ ClampIdle
    /\ AsideIdle

Next ==
    \/ HandleClick
    \/ RunBatch
    \/ Infer
    \/ OnBatchProgress
    \/ OnBatchResult
    \/ OnBatchComplete
    \/ StreamDone
    \/ IndividualDone

Spec == Init /\ [][Next]_vars

\* ------------------------------------------- a writer driven call by call
\* The items a caller hands to writeResult: what the batch-result case builds
\* from the worker's messages for the k-th file (a result without labels, one
\* with the most labels, a failed item).
\* What a caller other than the batch-result case may hand over as well: the
\* detection object itself as result (labels with bboxes), and an array whose
\* element carries an id of its own, for a file name already used.
DirectItems(k) ==
    {ResultItem(ImageName(k), RawResult("<OD>", MaxLabels), Undef, Num(Elapsed(MaxLabels)), Undef),
     ResultItem(ImageName(1),
                Arr(<<Obj(<<<<"label", Str(LabelText(1))>>, <<"id", Num(7)>>>>)>>),
                Undef, Num(Elapsed(1)), Undef)}
DriverItems(k) ==
    {ItemOfMessage(ResultMessage(k - 1, RawResult(task, n), Elapsed(n))) : n \in {0, MaxLabels}}
        \cup {ItemOfMessage(ErrorResultMessage(k - 1, <<"b", "o", "o", "m">>))}
        \cup DirectItems(k)
AllSettled == \A c \in 1..Len(calls) : calls[c].pc = "done"
CallsOf(op) == {c \in 1..Len(calls) : calls[c].op = op}

\* await writer.initialize(task)
DrvInitialize ==
    /\ AllSettled
    /\ Len(calls) < MaxCalls
    /\ CallsOf("initialize") = {}
    /\ writer' = Initialize(writer, task)
    /\ stream' = InitialStream(writer.kind)
    /\ file' = InitialFile(writer.kind)
    /\ calls' = Append(calls, Call("initialize", NoItem, "done", <<>>, "ok"))
    /\ UNCHANGED <<appVars, workerVars, files>>
    /\ UNCHANGED cropVars
\* writer.writeResult(item), awaited by the caller
DrvWriteResult ==
    /\ AllSettled
    /\ Len(calls) < MaxCalls
    /\ \E item \in DriverItems(Cardinality(CallsOf("writeResult")) + 1) :
        LET r == WriteResult(writer, stream, Len(calls) + 1, item)
        IN  /\ writer' = r.w
            /\ stream' = r.st
            /\ calls' = Append(calls, r.call)
    /\ UNCHANGED <<appVars, workerVars, file, files>>
    /\ UNCHANGED cropVars
\* writer.finalize(), awaited by the caller
DrvFinalize ==
    /\ AllSettled
    /\ Len(calls) < MaxCalls
    /\ LET r == Finalize(writer, stream, Len(calls) + 1)
       IN  /\ writer' = r.w
           /\ stream' = r.st
           /\ calls' = Append(calls, r.call)
    /\ UNCHANGED <<appVars, workerVars, file, files>>
    /\ UNCHANGED cropVars

InitWriter ==
    /\ status = "ready"
    /\ batchImages = 0
    /\ outputFormat \in Formats
    /\ task \in Tasks
    /\ batchProgress = [current |-> 0, total |-> 0, filename |-> <<>>]
    /\ processingStats = NoStats
    /\ streamingWriter = FALSE
    /\ clicked = FALSE
    /\ setupError = "none"
    /\ alerted = FALSE
    /\ recvd = 0
    /\ wpc = "idle"
    /\ i = 0
    /\ processedCount = 0
    /\ clock = 0
    /\ sent = <<>>
    /\ writer = NewWriter(outputFormat)
    /\ calls = <<>>
    /\ stream = NoStream
    /\ file = <<>>
    /\ files = <<>>
    /\ CropIdle
    /\ ClampIdle
    /\ AsideIdle

NextWriter ==
    \/ DrvInitialize
    \/ DrvWriteResult
    \/ DrvFinalize
    \/ StreamDone
    \/ IndividualDone

SpecWriter == InitWriter /\ [][NextWriter]_vars

\* ------------------------------------------------------ imageCropping.js
\* cropAndSaveImagesStreaming(csvData, imageFiles, outputDirHandle,
\* progressCallback): the records are objects as parseCSV builds them, the
\* image files are known by their names, and every image decodes to one size.
MaxRecords == 3

FileA == <<"a", ".", "j", "p", "g">>
FileB == <<"b", ".", "j", "p", "g">>
\* img.width, img.height of a decoded image
ImageSize == [width |-> Num(10), height |-> Num(8)]

AxisKeys == <<"xmin", "ymin", "xmax", "ymax">>
QuadKeys == <<"x1", "y1", "x2", "y2", "x3", "y3", "x4", "y4">>
\* the properties keys[j]: Num(ns[j])
Coords(keys, ns) == [j \in 1..Len(keys) |-> <<keys[j], Num(ns[j])>>]
\* The records a caller hands in: a box inside the image, a box to the right
\* of the image (empty once clamped), a quad of an image named by `filename`,
\* a record with neither `image` nor `filename`, and one with half a box.
DetectionRecords ==
    {Obj(<<<<"image", Str(FileA)>>, <<"label", Str(LabelText(1))>>>> \o Coords(AxisKeys, <<1, 1, 5, 5>>)),
     Obj(<<<<"image", Str(FileA)>>, <<"label", Str(LabelText(1))>>>> \o Coords(AxisKeys, <<12, 1, 15, 5>>)),
     Obj(<<<<"filename", Str(FileB)>>>> \o Coords(QuadKeys, <<2, 1, 6, 2, 7, 6, 1, 5>>)),
     Obj(<<<<"label", Str(LabelText(1))>>>> \o Coords(AxisKeys, <<1, 1, 5, 5>>)),
     Obj(<<<<"image", Str(FileA)>>>> \o Coords(<<"xmin", "ymin">>, <<1, 1>>))}
\* records of FileA with a score column: 0.3, 0 and 0.5
ScoredRecords ==
    {Obj(<<<<"image", Str(FileA)>>, <<"score", s>>>> \o Coords(AxisKeys, <<1, 1, 5, 5>>)) :
        s \in {Frac(3, 10), Num(0), Half(1)}}
\* records of FileA with both shapes at once, with a quad whose four vertices
\* coincide, with an id column, and with an id column whose cell is empty
OddRecords ==
    {Obj(<<<<"image", Str(FileA)>>>> \o Coords(AxisKeys, <<1, 1, 5, 5>>)
            \o Coords(QuadKeys, <<2, 1, 6, 2, 7, 6, 1, 5>>)),
     Obj(<<<<"image", Str(FileA)>>>> \o Coords(QuadKeys, <<3, 3, 3, 3, 3, 3, 3, 3>>)),
     Obj(<<<<"id", Num(7)>>, <<"image", Str(FileA)>>>> \o Coords(AxisKeys, <<1, 1, 5, 5>>)),
     Obj(<<<<"id", Str(<<>>)>>, <<"image", Str(FileA)>>>> \o Coords(AxisKeys, <<2, 2, 6, 6>>))}
\* images that share the start of their names with FileA
FileP == <<"a", ".", "p", "n", "g">>
FileD == <<"a", ".", "v", "2", ".", "j", "p", "g">>
\* one record without an id for each of FileA, FileP and FileD
TwinRecords ==
    {Obj(<<<<"image", Str(name)>>>> \o Coords(AxisKeys, <<1, 1, 5, 5>>)) : name \in {FileA, FileP, FileD}}
\* the image sets a caller hands in: every image named, or FileA alone
ImageSets == {{FileA, FileB}, {FileA}}

RECURSIVE SeqsUpTo(_, _)
\* the sequences over S of length at most n
SeqsUpTo(S, n) ==
    IF n = 0 THEN {<<>>}
    ELSE LET shorter == SeqsUpTo(S, n - 1)
         IN  shorter \cup {Append(q, x) : q \in {r \in shorter : Len(r) = n - 1}, x \in S}

\* row.image || row.filename
RowName(row) == IF Truthy(Get(row, "image")) THEN Get(row, "image") ELSE Get(row, "filename")
RECURSIVE GroupRows(_, _)
\* csvData.forEach(row => ...): the entries of groupedData after the rows,
\* given its entries before them; a row without a name is left out
GroupRows(rows, entries) ==
    IF rows = <<>> THEN entries
    ELSE LET row == Head(rows)
             name == RowName(row)
         IN  IF ~Truthy(name) THEN GroupRows(Tail(rows), entries)
             ELSE IF \E k \in 1..Len(entries) : entries[k][1] = name.s
             THEN LET k == CHOOSE k \in 1..Len(entries) : entries[k][1] = name.s
                  IN  GroupRows(Tail(rows), [entries EXCEPT ![k][2] = Append(@, row)])
             ELSE GroupRows(Tail(rows), Append(entries, <<name.s, <<row>>>>))

\* 'k1' in bbox && 'k2' in bbox && ...
HasAll(bbox, keys) == \A j \in 1..Len(keys) : HasKey(bbox, keys[j])
\* bbox.score || 1.0, and score < 0.5; Num holds twice the value
Score(bbox) == IF Truthy(Get(bbox, "score")) THEN Get(bbox, "score") ELSE Num(1)
BelowHalf(v) == (v.t = "num" /\ v.n2 < 1) \/ (v.t = "frac" /\ 2 * v.p < v.q)
\* bboxCoords of the inner try block: the quad when all eight keys are there,
\* else the axis box when all four are, else none (unknown format)
BBoxCoords(bbox) ==
    IF HasAll(bbox, QuadKeys)
    THEN Obj([j \in 1..Len(QuadKeys) |-> <<QuadKeys[j], Get(bbox, QuadKeys[j])>>])
    ELSE IF HasAll(bbox, AxisKeys)
    THEN Obj([j \in 1..Len(AxisKeys) |-> <<AxisKeys[j], Get(bbox, AxisKeys[j])>>])
    ELSE Undef

MinNum(a, b) == IF a.n2 <= b.n2 THEN a ELSE b
MaxNum(a, b) == IF a.n2 >= b.n2 THEN a ELSE b
\* cropRegion, quad branch: the bounding rectangle of the four vertices
BoundingRect(q) ==
    LET Lo(a, b, c, d) == MinNum(MinNum(Get(q, a), Get(q, b)), MinNum(Get(q, c), Get(q, d)))
        Hi(a, b, c, d) == MaxNum(MaxNum(Get(q, a), Get(q, b)), MaxNum(Get(q, c), Get(q, d)))
    IN  Obj(<<<<"xmin", Lo("x1", "x2", "x3", "x4")>>, <<"ymin", Lo("y1", "y2", "y3", "y4")>>,
              <<"xmax", Hi("x1", "x2", "x3", "x4")>>, <<"ymax", Hi("y1", "y2", "y3", "y4")>>>>)
\* Math.max(0, Math.min(v - 1, limit)): a one-based coordinate made zero-based
ClampToOneBased(v, limit) == MaxNum(Num(0), MinNum(Half(v.n2 - 2), limit))
\* Math.min(v, limit): the upper bound alone
ClampToUpperOnly(v, limit) == MinNum(v, limit)
\* Math.max(0, Math.min(v, limit))
ClampTo(v, limit) == MaxNum(Num(0), MinNum(v, limit))
\* cropRegion throwing on `width < 0 || height < 0` only
CropRegionNegativeOnly(bbox, size) ==
    LET box == IF HasAll(bbox, QuadKeys) THEN BoundingRect(bbox) ELSE bbox
        left == ClampTo(Get(box, "xmin"), size.width)
        top == ClampTo(Get(box, "ymin"), size.height)
        right == ClampTo(Get(box, "xmax"), size.width)
        bottom == ClampTo(Get(box, "ymax"), size.height)
    IN  [ok |-> ~(right.n2 - left.n2 < 0 \/ bottom.n2 - top.n2 < 0),
         left |-> left, top |-> top, right |-> right, bottom |-> bottom]
\* cropRegion(sourceCanvas, bbox, imageWidth, imageHeight) up to toBlob: the
\* clamped rectangle, and ok unless it throws 'Invalid crop dimensions'
CropRegion(bbox, size) ==
    LET box == IF HasAll(bbox, QuadKeys) THEN BoundingRect(bbox) ELSE bbox
        left == ClampTo(Get(box, "xmin"), size.width)
        top == ClampTo(Get(box, "ymin"), size.height)
        right == ClampTo(Get(box, "xmax"), size.width)
        bottom == ClampTo(Get(box, "ymax"), size.height)
    IN  [ok |-> ~(right.n2 - left.n2 <= 0 \/ bottom.n2 - top.n2 <= 0),
         left |-> left, top |-> top, right |-> right, bottom |-> bottom]

RECURSIVE BaseName(_)
\* filename.split('.')[0]
BaseName(s) == IF s = <<>> \/ Head(s) = "." THEN <<>> ELSE <<Head(s)>> \o BaseName(Tail(s))
\* `${baseFilename}_${imageId}.jpg`, imageId the record's id unless undefined
CroppedFilename(filename, bbox, idx) ==
    LET id == Get(bbox, "id")
        imageId == CASE id.t = "undef" -> <<ToString(idx)>>
                     [] id.t = "null" -> <<"null">>
                     [] OTHER -> ToText(id)
    IN  BaseName(filename) \o <<"_">> \o imageId \o <<".jpg">>

\* What the environment does to the try block of one record: nothing, or
\* toBlob gives no blob, or getDirectoryHandle, getFileHandle or the writable
\* (createWritable, write, close) rejects.
CropOutcomes == {"saved", "toBlob", "getDirectoryHandle", "getFileHandle", "write"}
\* the try block of record idx of the group of filename: whether it threw, and
\* the handle cache and the output directory it leaves
TryCrop(filename, bbox, idx, outcome, cache, out) ==
    LET region == CropRegion(BBoxCoords(bbox), ImageSize)
        base == BaseName(filename)
        at == <<base, CroppedFilename(filename, bbox, idx)>>
        cache2 == cache \cup {base}
        dirs2 == out.dirs \cup {base}
        created == IF at \in DOMAIN out.files THEN out.files ELSE (at :> EmptyFile) @@ out.files
        written == (at :> [k |-> "crop", filename |-> filename, index |-> idx, region |-> region])
                       @@ out.files
    IN  IF ~region.ok \/ outcome = "toBlob"
        THEN [threw |-> TRUE, cache |-> cache, out |-> out]
        ELSE IF outcome = "getDirectoryHandle"
        THEN [threw |-> TRUE, cache |-> cache, out |-> out]
        ELSE IF outcome = "getFileHandle"
        THEN [threw |-> TRUE, cache |-> cache2, out |-> [dirs |-> dirs2, files |-> out.files]]
        ELSE IF outcome = "write"
        THEN [threw |-> TRUE, cache |-> cache2, out |-> [dirs |-> dirs2, files |-> created]]
        ELSE [threw |-> FALSE, cache |-> cache2, out |-> [dirs |-> dirs2, files |-> written]]
\* a try block without its own catch: the exception reaches the catch of the
\* group, which counts the whole group as failed and leaves it
AfterCropThrowsToGroup(bboxes, count) == [failed |-> count + Len(bboxes), goesOn |-> FALSE]
\* the catch of the inner try block: failed++, and the loop goes on
AfterCropThrows(bboxes, count) == [failed |-> count + 1, goesOn |-> TRUE]

Verdict(filename, idx, what, n) == [filename |-> filename, index |-> idx, what |-> what, n |-> n]
\* progressCallback(processedImages, totalImages, ...): the groups done so far
ProgressCallDone(current, total, message, filename) ==
    [current |-> current - 1, total |-> total, message |-> message, filename |-> filename]
\* progressCallback(processedImages + 1, totalImages, `... ${filename} ...`)
ProgressCall(current, total, message, filename) ==
    [current |-> current, total |-> total, message |-> message, filename |-> filename]

\* the parsed CSV files and the images a caller hands in: the records of
\* FileA alone come with both images
CropInputs ==
    {[csvData |-> rows, imageFiles |-> images] :
        rows \in SeqsUpTo(DetectionRecords, MaxRecords), images \in ImageSets}
    \cup {[csvData |-> rows, imageFiles |-> {FileA, FileB}] :
            rows \in SeqsUpTo(ScoredRecords, MaxRecords) \cup SeqsUpTo(OddRecords, MaxRecords)}
    \cup {[csvData |-> rows, imageFiles |-> {FileA, FileP, FileD}] :
            rows \in SeqsUpTo(TwinRecords, MaxRecords)}

batchVars == <<appVars, workerVars, sinkVars, clampVars, asideVars>>
\* the group the loop is at and its records
Filename == groupedData[g][1]
Bboxes == groupedData[g][2]
Bbox == Bboxes[index + 1]

\* the call, down to the for-of loop: the grouping and the counters
CropCall ==
    /\ cpc = "called"
    /\ groupedData' = GroupRows(csvData, <<>>)
    /\ g' = 1
    /\ processedImages' = 0
    /\ saved' = 0
    /\ failed' = 0
    /\ skipped' = 0
    /\ cpc' = "group"
    /\ UNCHANGED <<csvData, imageFiles, index, progressCalls, imageDirHandles, outputDir,
                   verdicts, batchVars>>
\* the loop without its `if (!imageFile)`: loadImageToCanvas(undefined) throws
\* in the try block of the group, whose catch counts the records as failed
SkipGroupUnchecked ==
    /\ cpc = "group"
    /\ g <= Len(groupedData)
    /\ Filename \notin imageFiles
    /\ progressCalls' = Append(progressCalls,
           ProgressCall(processedImages + 1, Len(groupedData), "Processing", Filename))
    /\ processedImages' = processedImages + 1
    /\ failed' = failed + Len(Bboxes)
    /\ verdicts' = Append(verdicts, Verdict(Filename, -1, "failed", Len(Bboxes)))
    /\ g' = g + 1
    /\ UNCHANGED <<csvData, imageFiles, cpc, groupedData, index, saved, skipped,
                   imageDirHandles, outputDir, batchVars>>
\* a group whose image is not among the files: `if (!imageFile) { ... continue; }`
SkipGroup ==
    /\ cpc = "group"
    /\ g <= Len(groupedData)
    /\ Filename \notin imageFiles
    /\ progressCalls' = Append(progressCalls,
           ProgressCall(processedImages + 1, Len(groupedData), "Skipping", Filename))
    /\ processedImages' = processedImages + 1
    /\ skipped' = skipped + Len(Bboxes)
    /\ verdicts' = Append(verdicts, Verdict(Filename, -1, "skipped", Len(Bboxes)))
    /\ g' = g + 1
    /\ UNCHANGED <<csvData, imageFiles, cpc, groupedData, index, saved, failed,
                   imageDirHandles, outputDir, batchVars>>
\* a group whose image is there, down to `await loadImageToCanvas(imageFile)`
StartGroup ==
    /\ cpc = "group"
    /\ g <= Len(groupedData)
    /\ Filename \in imageFiles
    /\ progressCalls' = Append(progressCalls,
           ProgressCall(processedImages + 1, Len(groupedData), "Processing", Filename))
    /\ cpc' = "load"
    /\ UNCHANGED <<csvData, imageFiles, groupedData, g, index, processedImages, saved, failed,
                   skipped, imageDirHandles, outputDir, verdicts, batchVars>>
\* the catch of the group with `failed++` for `failed += bboxes.length`
LoadImageCountingOne ==
    /\ cpc = "load"
    /\ \E loaded \in BOOLEAN :
        IF loaded
        THEN /\ cpc' = "records"
             /\ index' = 0
             /\ UNCHANGED <<g, processedImages, failed, verdicts>>
        ELSE /\ failed' = failed + 1
             /\ verdicts' = Append(verdicts, Verdict(Filename, -1, "failed", 1))
             /\ processedImages' = processedImages + 1
             /\ g' = g + 1
             /\ cpc' = "group"
             /\ UNCHANGED index
    /\ UNCHANGED <<csvData, imageFiles, groupedData, saved, skipped, progressCalls,
                   imageDirHandles, outputDir, batchVars>>
\* loadImageToCanvas resolves (onload) or rejects (onerror): the inner loop
\* starts, or the catch of the group counts all its records as failed
LoadImage ==
    /\ cpc = "load"
    /\ \E loaded \in BOOLEAN :
        IF loaded
        THEN /\ cpc' = "records"
             /\ index' = 0
             /\ UNCHANGED <<g, processedImages, failed, verdicts>>
        ELSE /\ failed' = failed + Len(Bboxes)
             /\ verdicts' = Append(verdicts, Verdict(Filename, -1, "failed", Len(Bboxes)))
             /\ processedImages' = processedImages + 1
             /\ g' = g + 1
             /\ cpc' = "group"
             /\ UNCHANGED index
    /\ UNCHANGED <<csvData, imageFiles, groupedData, saved, skipped, progressCalls,
                   imageDirHandles, outputDir, batchVars>>
\* the loop with a bare `continue` where the unknown box format is met
SkipRecordUncounted ==
    /\ cpc = "records"
    /\ index < Len(Bboxes)
    /\ BelowHalf(Score(Bbox)) \/ BBoxCoords(Bbox) = Undef
    /\ IF BelowHalf(Score(Bbox))
       THEN /\ skipped' = skipped + 1
            /\ verdicts' = Append(verdicts, Verdict(Filename, index, "skipped", 1))
       ELSE UNCHANGED <<skipped, verdicts>>
    /\ index' = index + 1
    /\ UNCHANGED <<csvData, imageFiles, cpc, groupedData, g, processedImages, saved, failed,
                   progressCalls, imageDirHandles, outputDir, batchVars>>
\* the loop with a `throw` where the unknown box format is met: the catch of
\* the record counts it as failed
SkipRecordThrowing ==
    /\ cpc = "records"
    /\ index < Len(Bboxes)
    /\ BelowHalf(Score(Bbox)) \/ BBoxCoords(Bbox) = Undef
    /\ IF BelowHalf(Score(Bbox))
       THEN /\ skipped' = skipped + 1
            /\ verdicts' = Append(verdicts, Verdict(Filename, index, "skipped", 1))
            /\ UNCHANGED failed
       ELSE /\ failed' = failed + 1
            /\ verdicts' = Append(verdicts, Verdict(Filename, index, "failed", 1))
            /\ UNCHANGED skipped
    /\ index' = index + 1
    /\ UNCHANGED <<csvData, imageFiles, cpc, groupedData, g, processedImages, saved,
                   progressCalls, imageDirHandles, outputDir, batchVars>>
\* a record the loop passes over: a score below 0.5, or an unknown box format
SkipRecord ==
    /\ cpc = "records"
    /\ index < Len(Bboxes)
    /\ BelowHalf(Score(Bbox)) \/ BBoxCoords(Bbox) = Undef
    /\ skipped' = skipped + 1
    /\ verdicts' = Append(verdicts, Verdict(Filename, index, "skipped", 1))
    /\ index' = index + 1
    /\ UNCHANGED <<csvData, imageFiles, cpc, groupedData, g, processedImages, saved, failed,
                   progressCalls, imageDirHandles, outputDir, batchVars>>
\* the try block of one record, from cropRegion to close(), and its catch
CropRecord ==
    /\ cpc = "records"
    /\ index < Len(Bboxes)
    /\ ~BelowHalf(Score(Bbox))
    /\ BBoxCoords(Bbox) # Undef
    /\ \E outcome \in CropOutcomes :
        /\ outcome = "getDirectoryHandle" => BaseName(Filename) \notin imageDirHandles
        /\ LET t == TryCrop(Filename, Bbox, index, outcome, imageDirHandles, outputDir)
               after == AfterCropThrows(Bboxes, failed)
           IN  /\ imageDirHandles' = t.cache
               /\ outputDir' = t.out
               /\ IF ~t.threw
                  THEN /\ saved' = saved + 1
                       /\ verdicts' = Append(verdicts, Verdict(Filename, index, "saved", 1))
                       /\ index' = index + 1
                       /\ UNCHANGED <<failed, cpc, g, processedImages>>
                  ELSE /\ failed' = after.failed
                       /\ verdicts' = Append(verdicts,
                              Verdict(Filename, index, "failed", after.failed - failed))
                       /\ UNCHANGED saved
                       /\ IF after.goesOn
                          THEN /\ index' = index + 1
                               /\ UNCHANGED <<cpc, g, processedImages>>
                          ELSE /\ processedImages' = processedImages + 1
                               /\ g' = g + 1
                               /\ cpc' = "group"
                               /\ UNCHANGED index
    /\ UNCHANGED <<csvData, imageFiles, groupedData, skipped, progressCalls, batchVars>>
\* the inner loop is over: processedImages++ and the next group
GroupDone ==
    /\ cpc = "records"
    /\ index = Len(Bboxes)
    /\ processedImages' = processedImages + 1
    /\ g' = g + 1
    /\ cpc' = "group"
    /\ UNCHANGED <<csvData, imageFiles, groupedData, index, saved, failed, skipped,
                   progressCalls, imageDirHandles, outputDir, verdicts, batchVars>>
\* return { saved, failed, skipped }
CropReturn ==
    /\ cpc = "group"
    /\ g > Len(groupedData)
    /\ cpc' = "returned"
    /\ UNCHANGED <<csvData, imageFiles, groupedData, g, index, processedImages, saved, failed,
                   skipped, progressCalls, imageDirHandles, outputDir, verdicts, batchVars>>
Returned == [saved |-> saved, failed |-> failed, skipped |-> skipped]

InitCrop ==
    /\ status = "ready"
    /\ batchImages = 0
    /\ outputFormat = "csv"
    /\ task = "<OD>"
    /\ batchProgress = [current |-> 0, total |-> 0, filename |-> <<>>]
    /\ processingStats = NoStats
    /\ streamingWriter = FALSE
    /\ clicked = FALSE
    /\ setupError = "none"
    /\ alerted = FALSE
    /\ recvd = 0
    /\ wpc = "idle"
    /\ i = 0
    /\ processedCount = 0
    /\ clock = 0
    /\ sent = <<>>
    /\ writer = NewWriter(outputFormat)
    /\ calls = <<>>
    /\ stream = NoStream
    /\ file = <<>>
    /\ files = <<>>
    /\ \E input \in CropInputs : csvData = input.csvData /\ imageFiles = input.imageFiles
    /\ cpc = "called"
    /\ groupedData = <<>>
    /\ g = 1
    /\ index = 0
    /\ processedImages = 0
    /\ saved = 0
    /\ failed = 0
    /\ skipped = 0
    /\ progressCalls = <<>>
    /\ imageDirHandles = {}
    /\ outputDir = NoOutput
    /\ verdicts = <<>>
    /\ ClampIdle
    /\ AsideIdle

NextCrop ==
    \/ CropCall
    \/ SkipGroup
    \/ StartGroup
    \/ LoadImage
    \/ SkipRecord
    \/ CropRecord
    \/ GroupDone
    \/ CropReturn

SpecCrop == InitCrop /\ [][NextCrop]_vars

\* --------------------------------------- imageCropping.js, cropRegion alone
\* cropRegion(sourceCanvas, bbox, imageWidth, imageHeight) on an axis box,
\* and once more on the box of the coordinates it clamped. Coordinates are
\* numbers in steps of a half, from -0.5 up; widths and heights are integers
\* from 0 up.
MaxCoord == 4
MaxSide == 2

\* the boxes and image sizes cropRegion is called with
CropBoxes ==
    {Obj(<<<<"xmin", Half(a)>>, <<"ymin", Half(b)>>, <<"xmax", Half(c)>>, <<"ymax", Half(d)>>>>) :
        a \in -1..MaxCoord, b \in -1..MaxCoord, c \in -1..MaxCoord, d \in -1..MaxCoord}
ImageExtents == {[width |-> Num(w), height |-> Num(h)] : w \in 0..MaxSide, h \in 0..MaxSide}
\* { xmin: left, ymin: top, xmax: right, ymax: bottom }
AsBox(region) ==
    Obj(<<<<"xmin", region.left>>, <<"ymin", region.top>>,
          <<"xmax", region.right>>, <<"ymax", region.bottom>>>>)

\* cropRegion on the box given
Clamp ==
    /\ kpc = "given"
    /\ clamped' = CropRegion(cropBox, imageExtent)
    /\ kpc' = "clamped"
    /\ UNCHANGED <<cropBox, imageExtent, reclamped, appVars, workerVars, sinkVars, extractorVars,
                   asideVars>>
\* cropRegion on the box it clamped
ClampAgain ==
    /\ kpc = "clamped"
    /\ reclamped' = CropRegion(AsBox(clamped), imageExtent)
    /\ kpc' = "again"
    /\ UNCHANGED <<cropBox, imageExtent, clamped, appVars, workerVars, sinkVars, extractorVars,
                   asideVars>>

InitClamp ==
    /\ status = "ready"
    /\ batchImages = 0
    /\ outputFormat = "csv"
    /\ task = "<OD>"
    /\ batchProgress = [current |-> 0, total |-> 0, filename |-> <<>>]
    /\ processingStats = NoStats
    /\ streamingWriter = FALSE
    /\ clicked = FALSE
    /\ setupError = "none"
    /\ alerted = FALSE
    /\ recvd = 0
    /\ wpc = "idle"
    /\ i = 0
    /\ processedCount = 0
    /\ clock = 0
    /\ sent = <<>>
    /\ writer = NewWriter(outputFormat)
    /\ calls = <<>>
    /\ stream = NoStream
    /\ file = <<>>
    /\ files = <<>>
    /\ CropIdle
    /\ cropBox \in CropBoxes
    /\ imageExtent \in ImageExtents
    /\ kpc = "given"
    /\ clamped = Undef
    /\ reclamped = Undef
    /\ AsideIdle

NextClamp ==
    \/ Clamp
    \/ ClampAgain

SpecClamp == InitClamp /\ [][NextClamp]_vars

\* ------------------------------------- a batch run started while loading
\* The run button is disabled only while status is 'running', so a batch can
\* be started while load() is still waiting for the model.
\* getInstance() as load() awaits it: the cached promises resolve or reject
LoadSettles ==
    /\ instance = "pending"
    /\ \E outcome \in {"loaded", "rejected"} : instance' = outcome
    /\ UNCHANGED <<appVars, workerVars, sinkVars, extractorVars, clampVars, runVars,
                   parseVars>>
\* load() has warmed the model up and posts 'ready'; case 'ready' of
\* onMessageReceived
OnReady ==
    /\ instance = "loaded"
    /\ recvd = Len(sent)
    /\ instance' = "ready"
    /\ status' = "ready"
    /\ UNCHANGED <<batchImages, outputFormat, task, batchProgress, processingStats,
                   streamingWriter, clicked, setupError, alerted, recvd>>
    /\ UNCHANGED <<workerVars, sinkVars, extractorVars, clampVars, runVars,
                   parseVars>>
\* runBatch awaits getInstance() outside its try block: when the promises
\* are rejected the call ends there and posts nothing
RunBatchRejected ==
    /\ wpc = "start"
    /\ instance = "rejected"
    /\ wpc' = "failed"
    /\ UNCHANGED <<i, processedCount, clock, sent>>
    /\ UNCHANGED <<appVars, sinkVars, extractorVars, clampVars, asideVars>>

InitLoad ==
    /\ status \in {"ready", "loading"}
    /\ instance = IF status = "ready" THEN "ready" ELSE "pending"
    /\ batchImages \in 0..MaxItems
    /\ outputFormat \in Formats
    /\ task \in Tasks
    /\ batchProgress = [current |-> 0, total |-> 0, filename |-> <<>>]
    /\ processingStats = NoStats
    /\ streamingWriter = FALSE
    /\ clicked = FALSE
    /\ setupError = "none"
    /\ alerted = FALSE
    /\ recvd = 0
    /\ wpc = "idle"
    /\ i = 0
    /\ processedCount = 0
    /\ clock = 0
    /\ sent = <<>>
    /\ writer = NewWriter(outputFormat)
    /\ calls = <<>>
    /\ stream = NoStream
    /\ file = <<>>
    /\ files = <<>>
    /\ CropIdle
    /\ ClampIdle
    /\ image = Null
    /\ inbox = <<>>
    /\ vision_inputs = Undef
    /\ image_size = Undef
    /\ handled = <<>>
    /\ outbox = <<>>
    /\ table = Undef
    /\ ppc = "idle"
    /\ parsed = <<>>
    /\ serialized = <<>>
    /\ reparsed = <<>>

NextLoad ==
    \/ LoadSettles
    \/ OnReady
    \/ HandleClick
    \/ RunBatch
    \/ RunBatchRejected
    \/ Infer
    \/ OnBatchProgress
    \/ OnBatchResult
    \/ OnBatchComplete
    \/ StreamDone
    \/ IndividualDone

\* Each step that is ready is a task or a settled promise in an event loop:
\* the worker's and the main thread's loops run what is queued.
SpecLoad == InitLoad /\ [][NextLoad]_vars /\ WF_vars(NextLoad)

\* --------------------------------------------- single-image runs and resets
MaxUrls == 2
MaxChanges == 2
MaxRuns == 2

\* the data url of a chosen image
Url(k) == [t |-> "url", k |-> k]
\* image.size and processor(image) of the image read from url
ImageSizeOf(url) == [t |-> "size", of |-> url]
VisionInputs(url) == [t |-> "inputs", of |-> url]

ResetMessage == [type |-> "reset"]
RunMessage(url) == [type |-> "run", url |-> url]
\* a call of run(): the cache as its test `!vision_inputs` found it, where it
\* is suspended, what it has spread into model.generate and what it has
\* handed to post_process_generation
RunCall(url, found, pc, inputs, size) ==
    [type |-> "run", url |-> url, found |-> found, pc |-> pc, inputs |-> inputs,
     size |-> size]
\* how many messages of this type have been posted
Posted(type) ==
    Cardinality({k \in 1..Len(handled) : handled[k].type = type})
    + Cardinality({k \in 1..Len(inbox) : inbox[k].type = type})
RunsAt(pcs) == {r \in 1..Len(handled) : handled[r].type = "run" /\ handled[r].pc \in pcs}

\* onImageChange of the ImageInput: never disabled
OnImageChange(url) ==
    /\ Posted("reset") < MaxChanges
    /\ inbox' = Append(inbox, ResetMessage)
    /\ image' = url
    /\ UNCHANGED <<vision_inputs, image_size, handled, outbox>>
    /\ UNCHANGED <<appVars, workerVars, sinkVars, extractorVars, clampVars, loadVars,
                   parseVars>>
\* handleClick, single-image branch; the button is disabled while running
ClickRun ==
    /\ status = "ready"
    /\ Truthy(image)
    /\ Posted("run") < MaxRuns
    /\ status' = "running"
    /\ inbox' = Append(inbox, RunMessage(image))
    /\ UNCHANGED <<image, vision_inputs, image_size, handled, outbox>>
    /\ UNCHANGED <<batchImages, outputFormat, task, batchProgress, processingStats,
                   streamingWriter, clicked, setupError, alerted, recvd>>
    /\ UNCHANGED <<workerVars, sinkVars, extractorVars, clampVars, loadVars,
                   parseVars>>
\* case 'reset' of the worker's listener
HandleReset ==
    /\ inbox # <<>>
    /\ Head(inbox).type = "reset"
    /\ vision_inputs' = Null
    /\ image_size' = Null
    /\ handled' = Append(handled, Head(inbox))
    /\ inbox' = Tail(inbox)
    /\ UNCHANGED <<image, outbox>>
    /\ UNCHANGED <<appVars, workerVars, sinkVars, extractorVars, clampVars, loadVars,
                   parseVars>>
\* run() from its call to its first await that takes a task: getInstance()
\* is settled, so the test of the cache runs before any other message
RunStart(url, cache) ==
    IF Truthy(cache)
    THEN RunCall(url, cache, "generate", cache, Undef)
    ELSE RunCall(url, cache, "fromURL", Undef, Undef)
\* case 'run' of the worker's listener
HandleRun ==
    /\ inbox # <<>>
    /\ Head(inbox).type = "run"
    /\ handled' = Append(handled, RunStart(Head(inbox).url, vision_inputs))
    /\ inbox' = Tail(inbox)
    /\ UNCHANGED <<image, vision_inputs, image_size, outbox>>
    /\ UNCHANGED <<appVars, workerVars, sinkVars, extractorVars, clampVars, loadVars,
                   parseVars>>
\* RawImage.fromURL(url) returns: image_size = image.size
FromURLReturns(r) ==
    /\ image_size' = ImageSizeOf(handled[r].url)
    /\ handled' = [handled EXCEPT ![r].pc = "processor"]
    /\ UNCHANGED <<image, inbox, vision_inputs, outbox>>
\* processor(image) returns: the cache is filled and spread into generate
ProcessorReturns(r) ==
    /\ vision_inputs' = VisionInputs(handled[r].url)
    /\ handled' = [handled EXCEPT ![r].pc = "generate",
                                   ![r].inputs = VisionInputs(handled[r].url)]
    /\ UNCHANGED <<image, inbox, image_size, outbox>>
\* post_process_generation(generated_text, task, size) of the library: with
\* no size it returns or throws, as the task has it
PostProcessOutcomes(size) ==
    IF Truthy(size) THEN {"returns"} ELSE {"returns", "throws"}
\* model.generate returns: the result is post-processed with `image_size`
\* as it is now, and posted
GenerateReturns(r) ==
    \E outcome \in PostProcessOutcomes(image_size) :
        /\ handled' = [handled EXCEPT
                          ![r].pc = IF outcome = "returns" THEN "done" ELSE "failed",
                          ![r].size = image_size]
        /\ outbox' = IF outcome = "returns"
                      THEN Append(outbox, [status |-> "complete"])
                      ELSE outbox
        /\ UNCHANGED <<image, inbox, vision_inputs, image_size>>
\* the awaited call of run r rejects: run() has no catch and posts nothing
AwaitThrows(r) ==
    /\ handled' = [handled EXCEPT ![r].pc = "failed"]
    /\ UNCHANGED <<image, inbox, vision_inputs, image_size, outbox>>
\* a suspended run is resumed
RunResumes ==
    /\ \E r \in RunsAt({"fromURL", "processor", "generate"}) :
          \/ handled[r].pc = "fromURL" /\ FromURLReturns(r)
          \/ handled[r].pc = "processor" /\ ProcessorReturns(r)
          \/ handled[r].pc = "generate" /\ GenerateReturns(r)
          \/ AwaitThrows(r)
    /\ UNCHANGED <<appVars, workerVars, sinkVars, extractorVars, clampVars, loadVars,
                   parseVars>>
\* case 'complete' of onMessageReceived
OnComplete ==
    /\ outbox # <<>>
    /\ status' = "ready"
    /\ outbox' = Tail(outbox)
    /\ UNCHANGED <<image, inbox, vision_inputs, image_size, handled>>
    /\ UNCHANGED <<batchImages, outputFormat, task, batchProgress, processingStats,
                   streamingWriter, clicked, setupError, alerted, recvd>>
    /\ UNCHANGED <<workerVars, sinkVars, extractorVars, clampVars, loadVars,
                   parseVars>>

InitRun ==
    /\ status = "ready"
    /\ batchImages = 0
    /\ outputFormat = "csv"
    /\ task \in Tasks
    /\ batchProgress = [current |-> 0, total |-> 0, filename |-> <<>>]
    /\ processingStats = NoStats
    /\ streamingWriter = FALSE
    /\ clicked = FALSE
    /\ setupError = "none"
    /\ alerted = FALSE
    /\ recvd = 0
    /\ wpc = "idle"
    /\ i = 0
    /\ processedCount = 0
    /\ clock = 0
    /\ sent = <<>>
    /\ writer = NewWriter(outputFormat)
    /\ calls = <<>>
    /\ stream = NoStream
    /\ file = <<>>
    /\ files = <<>>
    /\ CropIdle
    /\ ClampIdle
    /\ AsideIdle

NextRun ==
    \/ \E k \in 1..MaxUrls : OnImageChange(Url(k))
    \/ ClickRun
    \/ HandleReset
    \/ HandleRun
    \/ RunResumes
    \/ OnComplete

SpecRun == InitRun /\ [][NextRun]_vars

\* ------------------------------------------------- parseCSV and back again
MaxRows == 1

Whitespace == {" ", "\n"}
RECURSIVE TrimStart(_)
TrimStart(s) == IF s # <<>> /\ Head(s) \in Whitespace THEN TrimStart(Tail(s)) ELSE s
RECURSIVE TrimEnd(_)
TrimEnd(s) ==
    IF s # <<>> /\ s[Len(s)] \in Whitespace THEN TrimEnd(SubSeq(s, 1, Len(s) - 1)) ELSE s
\* s.trim()
Trim(s) == TrimEnd(TrimStart(s))
RECURSIVE Split(_, _)
\* s.split(sep)
Split(s, sep) ==
    IF ~Includes(s, sep) THEN <<s>>
    ELSE LET k == CHOOSE k \in 1..Len(s) : s[k] = sep /\ \A m \in 1..(k - 1) : s[m] # sep
         IN  <<SubSeq(s, 1, k - 1)>> \o Split(SubSeq(s, k + 1, Len(s)), sep)

\* The digits of a decimal numeral; the texts of the model hold no letter of
\* an exponent, of a radix prefix or of Infinity.
DigitValue(c) == CHOOSE d \in 0..9 : ToString(d) = c
IsDigits(s) == \A j \in 1..Len(s) : s[j] \in {ToString(d) : d \in 0..9}
RECURSIVE DigitsValue(_)
DigitsValue(s) ==
    IF s = <<>> THEN 0 ELSE 10 * DigitsValue(SubSeq(s, 1, Len(s) - 1)) + DigitValue(s[Len(s)])
RECURSIVE Pow10(_)
Pow10(k) == IF k = 0 THEN 1 ELSE 10 * Pow10(k - 1)
Unsigned(value) == IF value # <<>> /\ Head(value) = "-" THEN Tail(value) ELSE value
\* !isNaN(value) of a trimmed, non-empty text: Number(value) is a number
IsNumeric(value) ==
    LET parts == Split(Unsigned(value), ".")
    IN  /\ Len(parts) <= 2
        /\ \A j \in 1..Len(parts) : IsDigits(parts[j])
        /\ \E j \in 1..Len(parts) : parts[j] # <<>>
\* parseFloat(value) of such a text
ParseFloat(value) ==
    LET parts == Split(Unsigned(value), ".")
        sign == IF Unsigned(value) = value THEN 1 ELSE 0 - 1
        whole == DigitsValue(parts[1])
        fraction == IF Len(parts) = 2 THEN parts[2] ELSE <<>>
        q == Pow10(Len(fraction))
        p == DigitsValue(fraction)
    IN  IF (2 * p) % q = 0
        THEN Half(sign * (2 * whole + (2 * p) \div q))
        ELSE [t |-> "frac", p |-> sign * (whole * q + p), q |-> q]

RECURSIVE ScanLine(_, _, _, _)
\* the inner loop of parseCSV over what is left of a line, and the push of
\* the last value after it
ScanLine(rest, current, inQuotes, values) ==
    IF rest = <<>> THEN Append(values, Trim(current))
    ELSE LET char == Head(rest)
         IN  IF char = "\""
             THEN ScanLine(Tail(rest), current, ~inQuotes, values)
             ELSE IF char = "," /\ ~inQuotes
             THEN ScanLine(Tail(rest), <<>>, inQuotes, Append(values, Trim(current)))
             ELSE ScanLine(Tail(rest), Append(current, char), inQuotes, values)
\* what headers.forEach stores for values[index], index being `at` - 1
CellValue(values, at) ==
    IF at > Len(values) THEN Undef
    ELSE IF values[at] # <<>> /\ IsNumeric(values[at])
    THEN ParseFloat(values[at])
    ELSE Str(values[at])
RECURSIVE RowObject(_, _, _)
\* obj after headers.forEach has run over the first n headers
RowObject(headers, values, n) ==
    IF n = 0 THEN Obj(<<>>)
    ELSE Put(RowObject(headers, values, n - 1), headers[n], CellValue(values, n))
\* parseCSV(csvContent): an array of objects whose keys are the header texts
ParseCSV(csvContent) ==
    LET lines == Split(Trim(csvContent), "\n")
        cells == Split(lines[1], ",")
        headers == [j \in 1..Len(cells) |-> Trim(cells[j])]
    IN  [r \in 1..(Len(lines) - 1) |->
            RowObject(headers, ScanLine(lines[r + 1], <<>>, FALSE, <<>>), Len(headers))]

\* The rows of values as StreamingCSVWriter.writeResult and saveCSVFile write
\* them: the keys of the first record joined by commas, then every record's
\* cells under those keys; nothing for no record.
RowsText(data) ==
    IF data = <<>> THEN <<>>
    ELSE LET headers == Keys(data[1])
             Line(r) == JoinWith([j \in 1..Len(headers) |-> CellText(Get(data[r], headers[j]))],
                                 ",")
         IN  JoinWith(<<JoinWith(headers, ",")>> \o [r \in 1..Len(data) |-> Line(r)], "\n")
             \o <<"\n">>

\* Well-formed CSV texts: a header line and rows of as many cells, a cell
\* plain or wrapped in quotes with its quotes doubled.
HeaderLines ==
    {<<<<"x">>, <<"y">>>>,
     <<<<"\"", "x", ",", "y", "\"">>, <<"z">>>>}
RawCells ==
    {<<"a">>, <<>>, <<"1">>, <<"1", ".", "5", "0">>,
     <<"\"", "a", ",", "b", "\"">>,
     <<"\"", "a", "\"", "\"", "b", "\"">>,
     <<"\"", " ", "a", " ", "\"">>}
Tables ==
    {[header |-> h, rows |-> rows] :
        h \in HeaderLines, rows \in SeqsUpTo(RawCells \X RawCells, MaxRows)}
\* the text of a table
CsvContent(t) ==
    JoinWith(<<JoinWith(t.header, ",")>>
             \o [r \in 1..Len(t.rows) |-> JoinWith(t.rows[r], ",")], "\n")

\* CroppingTab: parseCSV(csvContent) of the file read
Parse ==
    /\ ppc = "given"
    /\ parsed' = ParseCSV(CsvContent(table))
    /\ ppc' = "parsed"
    /\ UNCHANGED <<table, serialized, reparsed>>
    /\ UNCHANGED <<appVars, workerVars, sinkVars, extractorVars, clampVars, loadVars, runVars>>
\* the records are written out as CSV
Serialize ==
    /\ ppc = "parsed"
    /\ serialized' = RowsText(parsed)
    /\ ppc' = "written"
    /\ UNCHANGED <<table, parsed, reparsed>>
    /\ UNCHANGED <<appVars, workerVars, sinkVars, extractorVars, clampVars, loadVars, runVars>>
\* and what was written is parsed again
Reparse ==
    /\ ppc = "written"
    /\ reparsed' = ParseCSV(serialized)
    /\ ppc' = "reparsed"
    /\ UNCHANGED <<table, parsed, serialized>>
    /\ UNCHANGED <<appVars, workerVars, sinkVars, extractorVars, clampVars, loadVars, runVars>>

InitParse ==
    /\ status = "ready"
    /\ batchImages = 0
    /\ outputFormat = "csv"
    /\ task = "<OD>"
    /\ batchProgress = [current |-> 0, total |-> 0, filename |-> <<>>]
    /\ processingStats = NoStats
    /\ streamingWriter = FALSE
    /\ clicked = FALSE
    /\ setupError = "none"
    /\ alerted = FALSE
    /\ recvd = 0
    /\ wpc = "idle"
    /\ i = 0
    /\ processedCount = 0
    /\ clock = 0
    /\ sent = <<>>
    /\ writer = NewWriter(outputFormat)
    /\ calls = <<>>
    /\ stream = NoStream
    /\ file = <<>>
    /\ files = <<>>
    /\ CropIdle
    /\ ClampIdle
    /\ instance = "ready"
    /\ image = Null
    /\ inbox = <<>>
    /\ vision_inputs = Undef
    /\ image_size = Undef
    /\ handled = <<>>
    /\ outbox = <<>>
    /\ table \in Tables
    /\ ppc = "given"
    /\ parsed = <<>>
    /\ serialized = <<>>
    /\ reparsed = <<>>

NextParse ==
    \/ Parse
    \/ Serialize
    \/ Reparse

SpecParse == InitParse /\ [][NextParse]_vars

\* ================================================================ claims
IsResult(m) == m.status = "batch-result"
IsProgress(m) == m.status = "batch-progress"
\* the batch-result messages posted / handled so far, in order
ResultsSent == SelectSeq(sent, IsResult)
ResultsHandled == SelectSeq(SubSeq(sent, 1, recvd), IsResult)
WriteCalls == SelectSeq(calls, LAMBDA c : c.op = "writeResult")
Pending(op) == {c \in CallsOf(op) : calls[c].pc # "done"}
RunOver == wpc = "done" /\ recvd = Len(sent)

\* C1: whatever items throw, the worker posts exactly one batch-result per
\* item, in input order, for all N items (the loop never stops at a failed
\* item), and the main thread calls writeResult exactly once for each of them,
\* in that order: N calls once the run is over.
C1_EveryItemForwarded ==
    /\ Len(ResultsSent) <= batchImages
    /\ \A j \in 1..Len(ResultsSent) : ResultsSent[j].filename = ImageName(j)
    /\ wpc = "infer" => Len(ResultsSent) = i
    /\ wpc = "done" => Len(ResultsSent) = batchImages
    /\ Len(WriteCalls) = Len(ResultsHandled)
    /\ \A j \in 1..Len(WriteCalls) : WriteCalls[j].item = ItemOfMessage(ResultsHandled[j])
    /\ RunOver => Len(WriteCalls) = batchImages
C1_Witness ==
    /\ RunOver
    /\ batchImages = 2
    /\ "error" \in DOMAIN ResultsSent[1]
    /\ "error" \notin DOMAIN ResultsSent[2]
    /\ Len(WriteCalls) = 2

\* the record the sink holds for the item of writeResult call c carries the
\* item's error
RecordCarriesError(c) ==
    LET item == calls[c].item
    IN  CASE writer.kind = "json" ->
               \E a \in 1..Len(file) :
                   /\ file[a].by = c
                   /\ file[a].chunk.k = "record"
                   /\ Get(file[a].chunk.obj, "error") = item.error
          [] writer.kind = "csv" ->
               \E a \in 1..Len(file) :
                   /\ file[a].by = c
                   /\ file[a].chunk.k = "row"
                   /\ Truthy(writer.headers)
                   /\ \E h \in 1..Len(writer.headers.es) :
                       /\ writer.headers.es[h] = "error"
                       /\ file[a].chunk.cells[h] = CellText(item.error)
          [] OTHER ->
               LET name == item.filename \o <<".json">>
               IN  /\ name \in DOMAIN files
                   /\ files[name].k = "record"
                   /\ Get(files[name].obj, "error") = item.error
\* C2: when inference throws for item k, the ResultItem of item k carries
\* error = the exception's message, time = 0 and no result, and the record
\* the sink has written for item k contains that error field.
C2_ErrorRecorded ==
    \A c \in 1..Len(WriteCalls) :
        "error" \in DOMAIN ResultsHandled[c] =>
            /\ calls[c].item.error = ResultsHandled[c].error
            /\ calls[c].item.time = Num(0)
            /\ calls[c].item.result = Undef
            /\ calls[c].item.rawResult = Undef
            /\ (calls[c].pc = "done" /\ calls[c].outcome = "ok") => RecordCarriesError(c)

\* C3: at most one writeResult call is in flight on the sink at any time.
C3_OneWriteInFlight == Cardinality(Pending("writeResult")) <= 1

\* C4: finalize waits for all pending writes: it neither writes the closing
\* text nor closes the output (nor, for per-item files, returns) while a
\* writeResult call started before it has not completed.
C4_FinalizeWaitsForWrites ==
    \A f \in CallsOf("finalize") :
        calls[f].pc \in {"bracket", "close", "done"} =>
            \A c \in CallsOf("writeResult") : c < f => calls[c].pc = "done"

\* C5: the output holds the items in input order: everything written for
\* item a precedes everything written for item b whenever a < b (writeResult
\* call c is the call for item c).
C5_OutputInInputOrder ==
    \A a, b \in 1..Len(file) : a < b => file[a].by <= file[b].by

\* C7: finalize is invoked exactly once, only after the ResultItem of the last
\* item has been forwarded to the sink, and the completion summary (processed
\* count, total elapsed time) is surfaced only after finalize has completed.
C7_FinalizeOnceThenSummary ==
    /\ Cardinality(CallsOf("finalize")) <= 1
    /\ \A f \in CallsOf("finalize") :
        /\ f = Len(calls)
        /\ Len(WriteCalls) = batchImages
        /\ WriteCalls[batchImages].item.filename = ImageName(batchImages)
    /\ RunOver => Cardinality(CallsOf("finalize")) = 1
    /\ processingStats.set =>
        /\ \E f \in CallsOf("finalize") : calls[f].pc = "done" /\ calls[f].outcome = "ok"
        /\ processingStats.total = processedCount
        /\ processingStats.totalTime = clock
C7_Witness ==
    /\ processingStats.set
    /\ batchImages = 2
    /\ status = "ready"

\* C8: exactly one progress event is emitted per item, before the item's
\* inference starts and before its result is emitted, with current = index + 1
\* and total = N; so current never decreases and never exceeds total.
ProgressSent == SelectSeq(sent, IsProgress)
C8_ProgressPerItem ==
    /\ \A j \in 1..Len(ProgressSent) :
        /\ ProgressSent[j].current = j
        /\ ProgressSent[j].total = batchImages
        /\ ProgressSent[j].current <= ProgressSent[j].total
        /\ ProgressSent[j].filename = ImageName(j)
    /\ wpc = "infer" => Len(ProgressSent) = i + 1
    /\ wpc = "done" => Len(ProgressSent) = batchImages
    /\ \A a \in 1..Len(sent) :
        IsResult(sent[a]) =>
            /\ a > 1
            /\ IsProgress(sent[a - 1])
            /\ sent[a - 1].filename = sent[a].filename
C8_Witness ==
    /\ wpc = "done"
    /\ batchImages = 2
    /\ Len(ProgressSent) = 2
    /\ Len(ResultsSent) = 2

\* --------------------------------------------- claims on the writer alone
Chunks == [a \in 1..Len(file) |-> file[a].chunk]
RECURSIVE ArrayBody(_)
\* the number of elements of `record (,\n record)*`, -1 when it is not that
ArrayBody(cs) ==
    IF cs = <<>> THEN 0
    ELSE IF cs[1].k # "record" THEN -1
    ELSE IF Len(cs) = 1 THEN 1
    ELSE IF cs[2] # Separator THEN -1
    ELSE LET rest == ArrayBody(SubSeq(cs, 3, Len(cs)))
         IN  IF rest <= 0 THEN -1 ELSE rest + 1
\* the number of elements of the JSON array the chunks spell, -1 when they
\* spell no well-formed array
ArrayElements(cs) ==
    IF Len(cs) < 2 \/ cs[1] # OpenBracket \/ cs[Len(cs)] # CloseBracket THEN -1
    ELSE ArrayBody(SubSeq(cs, 2, Len(cs) - 1))
Records == SelectSeq(Chunks, LAMBDA ch : ch.k = "record")
InitializedBefore(c) == \E b \in CallsOf("initialize") : b < c
\* initialize, then writeResult calls only, then a finalize that has returned
SerialJsonRun ==
    /\ writer.kind = "json"
    /\ Len(calls) >= 2
    /\ calls[1].op = "initialize"
    /\ calls[Len(calls)].op = "finalize"
    /\ calls[Len(calls)].pc = "done"
    /\ \A c \in 2..(Len(calls) - 1) : calls[c].op = "writeResult"

\* C6: aggregate-JSON sink: after initialize, k >= 0 writeResult calls each
\* completed before the next starts, and finalize, the file is the opening
\* bracket, the k records in call order with exactly one separator between
\* adjacent records (none before the first, none after the last) and the
\* closing bracket: a well-formed JSON array of k elements.
C6_JsonFraming ==
    SerialJsonRun =>
        /\ stream.state = "closed"
        /\ ArrayElements(Chunks) = Len(calls) - 2
        /\ Len(file) = (IF Len(calls) = 2 THEN 2 ELSE 2 * (Len(calls) - 2) + 1)
        /\ Len(Records) = Len(calls) - 2
        /\ \A j \in 1..Len(Records) :
            Get(Records[j].obj, "filename") = Str(calls[j + 1].item.filename)
C6_Witness ==
    /\ SerialJsonRun
    /\ Len(calls) = 4
    /\ Len(file) = 5
    /\ file[3].chunk = Separator

\* C9: for every sink variant, writeResult on a constructed writer before
\* initialize fails with 'Writer not initialized' and writes nothing.
C9_WriteBeforeInitializeFails ==
    /\ \A c \in CallsOf("writeResult") :
        ~InitializedBefore(c) => calls[c].pc = "done" /\ calls[c].outcome = NotInitialized
    /\ CallsOf("initialize") = {} => file = <<>> /\ files = <<>>

\* C10 as claimed: for every sink variant, finalize before initialize is
\* reported as the 'Writer not initialized' error.
C10_FinalizeBeforeInitializeFails ==
    \A f \in CallsOf("finalize") :
        ~InitializedBefore(f) => calls[f].outcome = NotInitialized
\* C10 as amended: for every sink variant, finalize before initialize returns
\* normally at once and leaves the writer, the stream and the files as they
\* were (a no-op, no error).
C10_FinalizeBeforeInitializeIsNoOp ==
    [][(/\ Len(calls') = Len(calls) + 1
        /\ calls'[Len(calls')].op = "finalize"
        /\ CallsOf("initialize") = {})
       => (/\ calls'[Len(calls')].pc = "done"
           /\ calls'[Len(calls')].outcome = "ok"
           /\ UNCHANGED <<writer, stream, file, files>>)]_vars
C10_Witness ==
    \E f \in CallsOf("finalize") :
        /\ ~InitializedBefore(f)
        /\ calls[f].pc = "done"
        /\ calls[f].outcome = "ok"
        /\ writer.kind = "json"

\* C11: for every sink variant, a writeResult called after a finalize of the
\* initialized writer has completed fails with 'Writer not initialized' (and
\* so writes nothing).
C11_WriteAfterFinalizeFails ==
    \A c \in CallsOf("writeResult") :
        (\E f \in CallsOf("finalize") : f < c /\ InitializedBefore(f) /\ calls[f].pc = "done") =>
            calls[c].pc = "done" /\ calls[c].outcome = NotInitialized

\* -------------------------------------------------- claims on the CSV writer
RECURSIVE RowsFlattened(_, _)
\* the rows flattened by the writeResult calls from call c on, in flattening
\* order, the counter standing at id before call c; a call that threw at the
\* guard flattened nothing
RowsFlattened(c, id) ==
    IF c > Len(calls) THEN <<>>
    ELSE IF calls[c].op = "writeResult" /\ calls[c].outcome # NotInitialized
    THEN LET f == Flatten([rowId |-> id], calls[c].item)
         IN  f.rows \o RowsFlattened(c + 1, f.rowId)
    ELSE RowsFlattened(c + 1, id)
FlatRows == RowsFlattened(1, 0)
\* the cells of a row under a header: a field the row lacks is empty, a field
\* of the row that is no column is not there
CellsUnder(header, row) ==
    [h \in 1..Len(header) |-> IF HasKey(row, header[h]) THEN CellText(Get(row, header[h])) ELSE <<>>]

\* C12: flattened-CSV sink: the header line is written exactly once, right
\* before the first data row, and is the key list (insertion order) of the
\* first row ever flattened; every later row, whatever its shape, is written
\* under exactly that column list, a field it lacks empty, a field outside the
\* header dropped; the header never changes afterwards.
C12_HeaderFixedByFirstRow ==
    writer.kind = "csv" =>
        /\ FlatRows = <<>> => file = <<>> /\ ~Truthy(writer.headers)
        /\ Truthy(writer.headers) => FlatRows # <<>> /\ writer.headers.es = Keys(FlatRows[1])
        /\ file # <<>> =>
            /\ file[1].chunk.k = "header"
            /\ file[1].chunk.cells = Keys(FlatRows[1])
            /\ \A a \in 2..Len(file) :
                /\ file[a].chunk.k = "row"
                /\ file[a].chunk.cells = CellsUnder(Keys(FlatRows[1]), FlatRows[a - 1])
        /\ (AllSettled /\ FlatRows # <<>>) => Len(file) = Len(FlatRows) + 1
C12_Witness ==
    /\ writer.kind = "csv"
    /\ AllSettled
    /\ Len(file) = 3
    /\ calls[Len(calls)].op = "finalize"
    /\ Keys(FlatRows[2]) # Keys(FlatRows[1])
    /\ \E h \in 1..Len(file[3].chunk.cells) : file[3].chunk.cells[h] = <<>>

\* the data rows writeResult call c has written
RowsBy(c) == {a \in 1..Len(file) : file[a].by = c /\ file[a].chunk.k = "row"}
\* C13: flattened-CSV sink: every writeResult call that returns has written
\* at least one data row for its item, whatever the result's shape, detections
\* with zero labels and empty arrays included.
C13_AtLeastOneRow ==
    writer.kind = "csv" =>
        \A c \in CallsOf("writeResult") :
            (calls[c].pc = "done" /\ calls[c].outcome = "ok") => RowsBy(c) # {}

\* the id column of the data row at place a of the file (the header is at
\* place 1 and `id` is its first column), and the text of the id the counter
\* gives the row: rows are numbered from 0 in flattening order
IdCell(a) == file[a].chunk.cells[1]
FreshId(a) == NumText(Num(a - 2))
\* C14: flattened-CSV sink: within one writer the ids of the rows are 0, 1,
\* 2, ... in flattening order across all writeResult calls (strictly
\* increasing by exactly 1), so no two rows of the file share an id.
C14_IdsSequential ==
    (writer.kind = "csv" /\ file # <<>>) =>
        /\ file[1].chunk.cells[1] = "id"
        /\ \A a \in 2..Len(file) : IdCell(a) = FreshId(a)
        /\ \A a, b \in 2..Len(file) : a # b => IdCell(a) # IdCell(b)

\* C15: flattened-CSV sink: for an array-shaped result the row of each
\* element carries the writer's fresh sequential id, whatever id field the
\* source element has.
C15_ArrayRowsCarryFreshId ==
    writer.kind = "csv" =>
        \A c \in CallsOf("writeResult") :
            IsArr(calls[c].item.result) =>
                \A a \in RowsBy(c) : IdCell(a) = FreshId(a)

\* ----------------------------------------- claims on the per-item writer
\* the name of the file of writeResult call c, and the record the call is to
\* leave in it: task is what initialize has set by then, null before it
NameOf(c) == calls[c].item.filename \o <<".json">>
RecordOf(c) ==
    ResultObject([task |-> IF InitializedBefore(c) THEN Str(<<task>>) ELSE Null], calls[c].item)
\* the writeResult calls on that name that have returned
Closed(name) == {c \in CallsOf("writeResult") : NameOf(c) = name /\ calls[c].pc = "done"}
Latest(cs) == CHOOSE c \in cs : \A d \in cs : d <= c
\* every file of the directory is the file of a call that has got its handle,
\* and holds the record of the latest call on its name that has returned
FilesHoldRecords ==
    /\ DOMAIN files = {NameOf(c) : c \in {d \in CallsOf("writeResult") : calls[d].pc # "getFileHandle"}}
    /\ \A name \in DOMAIN files :
        files[name] = IF Closed(name) = {} THEN EmptyFile
                      ELSE [k |-> "record", obj |-> RecordOf(Latest(Closed(name)))]
    /\ file = <<>>
    /\ stream = NoStream
\* the names whose file a step creates or rewrites
FilesChanged == {n \in DOMAIN files' : n \notin DOMAIN files \/ files'[n] # files[n]}
\* C16: per-item-file sink: each writeResult creates (or overwrites) exactly
\* one file, <filename>.json, holding that item's record, and has opened,
\* written and closed it when it returns; finalize returns at once, writes
\* nothing and changes no file.
C16_OneFilePerItem ==
    /\ [](writer.kind = "individual" => FilesHoldRecords)
    /\ [][writer.kind = "individual" =>
            /\ DOMAIN files \subseteq DOMAIN files'
            /\ Cardinality(FilesChanged) <= 1
            /\ \A n \in FilesChanged :
                \E c \in CallsOf("writeResult") : calls'[c] # calls[c] /\ NameOf(c) = n
            /\ (Len(calls') = Len(calls) + 1 /\ calls'[Len(calls')].op = "finalize") =>
                /\ calls'[Len(calls')].pc = "done"
                /\ calls'[Len(calls')].outcome = "ok"
                /\ UNCHANGED <<writer, stream, file, files>>]_vars
C16_Witness ==
    /\ writer.kind = "individual"
    /\ AllSettled
    /\ Len(calls) = 4
    /\ calls[1].op = "initialize"
    /\ calls[4].op = "finalize"
    /\ NameOf(2) = NameOf(3)
    /\ calls[2].item # calls[3].item
    /\ DOMAIN files = {NameOf(3)}
    /\ files[NameOf(3)].obj = RecordOf(3)

\* ------------------------------------------------ claims on handleClick
\* no work has started: no run-batch has reached the worker, no inference has
\* run, nothing was posted or written, and the status never left 'ready'
NothingStarted ==
    /\ status = "ready"
    /\ wpc = "idle"
    /\ sent = <<>>
    /\ recvd = 0
    /\ calls = <<>>
    /\ ~streamingWriter
    /\ stream = NoStream
    /\ file = <<>>
    /\ files = <<>>
\* C17: when the user cancels the destination prompt the factory fails with
\* an AbortError, distinct from every other failure, and the batch is aborted
\* before any work starts: no run-batch is posted, the status does not become
\* 'running', no inference runs and no error dialog is shown; any other
\* factory failure (an unknown format tag included) starts no work either
\* (and shows the dialog).
C17_CancelStartsNothing ==
    /\ \A outcome \in PromptOutcomes :
        /\ FactoryError("xml", outcome) \notin {"none", "AbortError"}
        /\ \A format \in Formats :
            (FactoryError(format, outcome) = "AbortError") <=> (outcome = "AbortError")
    /\ setupError # "none" => clicked /\ NothingStarted
    /\ setupError = "AbortError" => ~alerted
    /\ alerted <=> setupError \notin {"none", "AbortError"}
    /\ status = "running" => setupError = "none"
C17_Witness ==
    /\ setupError = "AbortError"
    /\ ~alerted
    /\ batchImages = 2
    /\ clicked

\* ------------------------------------------------ claims on interruption
\* the output destination holds what writeResult call c was to record
HeldInDestination(c) ==
    CASE writer.kind = "json" ->
           \E a \in 1..Len(Destination) :
               /\ Destination[a].by = c
               /\ Destination[a].chunk = RecordChunk(writer, calls[c].item)
      [] writer.kind = "csv" ->
           Cardinality({a \in 1..Len(Destination) :
                           Destination[a].by = c /\ Destination[a].chunk.k = "row"})
               = Len(Flatten(writer, calls[c].item).rows)
      [] OTHER ->
           /\ NameOf(c) \in DOMAIN files
           /\ files[NameOf(c)] = [k |-> "record", obj |-> ResultObject(writer, calls[c].item)]
\* C18: partial results are preserved on interruption: wherever the run stops
\* before finalize is called, the output destination holds the record of
\* every item whose writeResult call has completed.
C18_PartialResultsPreserved ==
    CallsOf("finalize") = {} =>
        \A c \in CallsOf("writeResult") :
            (calls[c].pc = "done" /\ calls[c].outcome = "ok") => HeldInDestination(c)

\* ------------------------------------------- claims on the region extractor
\* the verdicts on the records of one group, in order
VerdictsOf(filename) == SelectSeq(verdicts, LAMBDA v : v.filename = filename)
\* a group is accounted for record by record, each record once and in order,
\* or as a whole (image not found, image not decoded)
GroupAccounted(k) ==
    LET vs == VerdictsOf(groupedData[k][1])
        n == Len(groupedData[k][2])
    IN  \/ Len(vs) = 1 /\ vs[1].index = -1 /\ vs[1].n = n
        \/ /\ Len(vs) = n
           /\ \A j \in 1..n : vs[j].index = j - 1 /\ vs[j].n = 1
\* the step counts a failure of one record
RecordFails ==
    /\ Len(verdicts') = Len(verdicts) + 1
    /\ verdicts'[Len(verdicts')].what = "failed"
    /\ verdicts'[Len(verdicts')].index >= 0
\* C19: a failure while cropping, encoding or writing one record (a
\* non-positive crop dimension included) increments failed by exactly 1 for
\* that record and aborts neither the group nor the run: the loop goes on with
\* the next record of the group, every later group is still processed, and
\* the run returns its {saved, failed, skipped} totals (it is always at a
\* place of the loops from which its next step can be taken).
C19_RecordFailureIsLocal ==
    /\ [][RecordFails =>
            /\ failed' = failed + 1
            /\ saved' = saved
            /\ skipped' = skipped
            /\ cpc' = "records"
            /\ g' = g
            /\ index' = index + 1
            /\ verdicts'[Len(verdicts')].filename = Filename
            /\ verdicts'[Len(verdicts')].index = index]_vars
    /\ [](cpc = "returned" =>
            /\ \A k \in 1..Len(groupedData) : GroupAccounted(k)
            /\ g = Len(groupedData) + 1
            /\ processedImages = Len(groupedData))
    /\ [](/\ cpc \in {"called", "group", "load", "records", "returned"}
          /\ cpc \in {"load", "records"} => g <= Len(groupedData)
          /\ cpc = "records" => index <= Len(Bboxes))
C19_Witness ==
    /\ cpc = "returned"
    /\ Len(verdicts) = 3
    /\ verdicts[1].what = "failed" /\ verdicts[1].index = 0
    /\ verdicts[2].what = "saved" /\ verdicts[2].filename = verdicts[1].filename
    /\ verdicts[3].what = "saved" /\ verdicts[3].filename # verdicts[1].filename
    /\ ~CropRegion(BBoxCoords(groupedData[1][2][1]), ImageSize).ok
    /\ Returned = [saved |-> 2, failed |-> 1, skipped |-> 0]

\* the input records with neither an image nor a filename
Nameless == SelectSeq(csvData, LAMBDA row : ~Truthy(RowName(row)))
RECURSIVE Total(_, _)
\* the records counted by the verdicts of one kind
Total(vs, what) ==
    IF vs = <<>> THEN 0
    ELSE (IF Head(vs).what = what THEN Head(vs).n ELSE 0) + Total(Tail(vs), what)
\* C20: every input record that has neither an image nor a filename field is
\* dropped from grouping and counted in skipped: on return skipped is the
\* number of such records plus the records skipped in the groups.
C20_NamelessCountedSkipped ==
    /\ \A k \in 1..Len(groupedData) :
        \A j \in 1..Len(groupedData[k][2]) : Truthy(RowName(groupedData[k][2][j]))
    /\ cpc = "returned" => skipped = Len(Nameless) + Total(verdicts, "skipped")

\* the loop is at a group whose image is not among the files
AtMissingImage == cpc = "group" /\ g <= Len(groupedData) /\ Filename \notin imageFiles
\* the crops in the output directory that were cut from the image filename
CropsOf(filename) == {at \in DOMAIN outputDir.files :
                         outputDir.files[at] # EmptyFile /\ outputDir.files[at].filename = filename}
\* C21: for a group whose image name is absent from the image set, skipped
\* grows by exactly the number of records of the group, saved and failed stay,
\* the image is not decoded and nothing is written (the loop never is at the
\* decoding or at a record of such a group, and the output holds no crop of
\* it), and the loop goes on with the next group.
C21_MissingImageSkipsGroup ==
    /\ [][AtMissingImage =>
            /\ skipped' = skipped + Len(Bboxes)
            /\ saved' = saved
            /\ failed' = failed
            /\ outputDir' = outputDir
            /\ imageDirHandles' = imageDirHandles
            /\ cpc' = "group"
            /\ g' = g + 1]_vars
    /\ [](cpc \in {"load", "records"} => Filename \in imageFiles)
    /\ [](\A k \in 1..Len(groupedData) :
            groupedData[k][1] \notin imageFiles =>
                /\ CropsOf(groupedData[k][1]) = {}
                /\ k < g => VerdictsOf(groupedData[k][1])
                               = <<Verdict(groupedData[k][1], -1, "skipped", Len(groupedData[k][2]))>>)
C21_Witness ==
    /\ cpc = "returned"
    /\ Len(groupedData) = 2
    /\ groupedData[1][1] \notin imageFiles
    /\ Len(groupedData[1][2]) = 2
    /\ verdicts = <<Verdict(groupedData[1][1], -1, "skipped", 2),
                    Verdict(groupedData[2][1], 0, "saved", 1)>>
    /\ Returned = [saved |-> 1, failed |-> 0, skipped |-> 2]

\* the loop is at a record of a decoded image
AtRecord == cpc = "records" /\ index < Len(Bboxes)
\* the record has a score, and it is below 0.5
HasScore(row) == HasKey(row, "score") /\ Get(row, "score").t \in {"num", "frac"}
LowScore(row) ==
    /\ HasScore(row)
    /\ LET s == Get(row, "score")
       IN  IF s.t = "num" THEN s.n2 < 1 ELSE 2 * s.p < s.q
\* the record has one of the two shapes in full
HasShape(row) == HasAll(row, QuadKeys) \/ HasAll(row, AxisKeys)
\* C22: every record of a found image whose score is present and below 0.5
\* (score 0 included) is counted as skipped, and no crop is attempted or
\* written for it; a record without a score is never skipped by the
\* confidence gate (with a shape in full it is not skipped at all).
C22_LowScoreSkipped ==
    /\ [][(AtRecord /\ LowScore(Bbox)) =>
            /\ skipped' = skipped + 1
            /\ saved' = saved
            /\ failed' = failed
            /\ outputDir' = outputDir
            /\ imageDirHandles' = imageDirHandles
            /\ index' = index + 1]_vars
    /\ [][(AtRecord /\ ~HasScore(Bbox) /\ HasShape(Bbox)) => skipped' = skipped]_vars

\* C23: a record that has neither the quad shape in full (x1..y4) nor the
\* axis shape in full (xmin, ymin, xmax, ymax) is counted as skipped, not as
\* failed or saved, and no crop is attempted for it: nothing is written and
\* the loop goes on with the next record.
C23_UnknownShapeSkipped ==
    [][(AtRecord /\ ~HasShape(Bbox)) =>
          /\ skipped' = skipped + 1
          /\ saved' = saved
          /\ failed' = failed
          /\ outputDir' = outputDir
          /\ imageDirHandles' = imageDirHandles
          /\ verdicts' = Append(verdicts, Verdict(Filename, index, "skipped", 1))
          /\ cpc' = "records"
          /\ index' = index + 1]_vars
C23_Witness ==
    /\ cpc = "returned"
    /\ Len(groupedData) = 1
    /\ ~HasShape(groupedData[1][2][1])
    /\ ~HasScore(groupedData[1][2][1])
    /\ verdicts = <<Verdict(groupedData[1][1], 0, "skipped", 1),
                    Verdict(groupedData[1][1], 1, "saved", 1)>>
    /\ Returned = [saved |-> 1, failed |-> 0, skipped |-> 1]

\* C24: a record carrying both shapes at once (all of x1..y4 and all of
\* xmin, ymin, xmax, ymax) is treated as an error: it is counted as failed or
\* skipped, and it is not cropped and saved.
C24_BothShapesRejected ==
    [][(AtRecord /\ HasAll(Bbox, QuadKeys) /\ HasAll(Bbox, AxisKeys)) =>
          /\ saved' = saved
          /\ failed' + skipped' = failed + skipped + 1]_vars

\* ------------------------------------------------- claims on the geometry
\* in the units of n2: the least and the greatest of the coordinates keys of a
\* record, and min(max(v, 0), limit)
Least(row, keys) ==
    CHOOSE v \in {Get(row, k).n2 : k \in keys} : \A k \in keys : v <= Get(row, k).n2
Greatest(row, keys) ==
    CHOOSE v \in {Get(row, k).n2 : k \in keys} : \A k \in keys : v >= Get(row, k).n2
RefClamp(v, limit) ==
    LET raised == IF v > 0 THEN v ELSE 0
    IN  IF raised < limit THEN raised ELSE limit
\* the four vertices of a quad record coincide
Coincide(row) ==
    /\ HasAll(row, QuadKeys)
    /\ \A k \in {"x2", "x3", "x4"} : Get(row, k) = Get(row, "x1")
    /\ \A k \in {"y2", "y3", "y4"} : Get(row, k) = Get(row, "y1")
\* the box of a record has no width or no height once clamped to the size
EmptyOnceClamped(row, size) ==
    LET xs == IF HasAll(row, QuadKeys) THEN {"x1", "x2", "x3", "x4"} ELSE {"xmin", "xmax"}
        ys == IF HasAll(row, QuadKeys) THEN {"y1", "y2", "y3", "y4"} ELSE {"ymin", "ymax"}
        lo(keys) == IF HasAll(row, QuadKeys) THEN Least(row, keys)
                    ELSE Get(row, CHOOSE k \in keys : k \in {"xmin", "ymin"}).n2
        hi(keys) == IF HasAll(row, QuadKeys) THEN Greatest(row, keys)
                    ELSE Get(row, CHOOSE k \in keys : k \in {"xmax", "ymax"}).n2
    IN  \/ RefClamp(hi(xs), size.width.n2) - RefClamp(lo(xs), size.width.n2) <= 0
        \/ RefClamp(hi(ys), size.height.n2) - RefClamp(lo(ys), size.height.n2) <= 0
\* C25: a quad whose four vertices coincide, and any box whose width or height
\* is <= 0 once clamped to the image, is rejected as invalid crop geometry:
\* the record is counted as failed, no file is written for it, and the batch
\* is not aborted (the loop goes on with the next record and the run returns
\* with every group processed).
C25_EmptyCropFails ==
    /\ [][(AtRecord /\ HasShape(Bbox) /\ ~LowScore(Bbox)
              /\ (Coincide(Bbox) \/ EmptyOnceClamped(Bbox, ImageSize))) =>
            /\ failed' = failed + 1
            /\ saved' = saved
            /\ skipped' = skipped
            /\ outputDir' = outputDir
            /\ cpc' = "records"
            /\ g' = g
            /\ index' = index + 1]_vars
    /\ [](cpc = "returned" =>
            /\ processedImages = Len(groupedData)
            /\ saved + failed + skipped = Total(verdicts, "saved") + Total(verdicts, "failed")
                                              + Total(verdicts, "skipped"))
C25_Witness ==
    /\ cpc = "returned"
    /\ Len(groupedData) = 1
    /\ Coincide(groupedData[1][2][1])
    /\ verdicts = <<Verdict(groupedData[1][1], 0, "failed", 1),
                    Verdict(groupedData[1][1], 1, "saved", 1)>>
    /\ DOMAIN outputDir.files = {<<BaseName(FileA), CroppedFilename(FileA, groupedData[1][2][2], 1)>>}
    /\ Returned = [saved |-> 1, failed |-> 1, skipped |-> 0]

\* ----------------------------------------------- claims on the crop files
\* the base name of a file name: the name without its extension
Stem(s) ==
    IF \E k \in 1..Len(s) : s[k] = "."
    THEN LET last == CHOOSE k \in 1..Len(s) : s[k] = "." /\ \A j \in (k + 1)..Len(s) : s[j] # "."
         IN  SubSeq(s, 1, last - 1)
    ELSE s
\* the record has an id of its own: a number, or a text that is not empty
HasId(row) ==
    LET id == Get(row, "id")
    IN  id.t = "num" \/ (id.t = "str" /\ id.s # <<>>)
\* <baseName>_<id>.jpg for record idx of the group of filename
CropName(filename, row, idx) ==
    Stem(filename) \o <<"_">> \o (IF HasId(row) THEN ToText(Get(row, "id")) ELSE <<ToString(idx)>>)
        \o <<".jpg">>
\* the step saves the record the loop is at
SavesRecord == AtRecord /\ saved' = saved + 1
\* C26: every saved crop is written into the subdirectory named after the
\* base name of its source image, under the file name <baseName>_<id>.jpg,
\* where id is the id of the record when it has one and otherwise the position
\* of the record within its group (skipped and failed records counted).
C26_CropPathFromNameAndId ==
    [][SavesRecord =>
          LET at == <<Stem(Filename), CropName(Filename, Bbox, index)>>
          IN  /\ Stem(Filename) \in outputDir'.dirs
              /\ at \in DOMAIN outputDir'.files
              /\ outputDir'.files[at] # EmptyFile
              /\ outputDir'.files[at].filename = Filename
              /\ outputDir'.files[at].index = index
              /\ \A other \in DOMAIN outputDir'.files \ {at} :
                    /\ other \in DOMAIN outputDir.files
                    /\ outputDir'.files[other] = outputDir.files[other]]_vars

\* C27: cropped regions are organized into subfolders by label: every crop
\* saved from a record with a label is written into the subdirectory of the
\* output named after that label.
C27_CropsFiledByLabel ==
    [][(SavesRecord /\ IsStr(Get(Bbox, "label"))) =>
          \E at \in DOMAIN outputDir'.files :
              /\ at[1] = Get(Bbox, "label").s
              /\ outputDir'.files[at] # EmptyFile
              /\ outputDir'.files[at].filename = Filename
              /\ outputDir'.files[at].index = index]_vars

\* ------------------------------------------------- claims on the progress
\* the rows of the input that name an image, and the names, each at the place
\* of its first row
Named == {r \in 1..Len(csvData) : Truthy(RowName(csvData[r]))}
GroupNames == {RowName(csvData[r]).s : r \in Named}
FirstRow(name) == CHOOSE r \in Named : RowName(csvData[r]).s = name
                                        /\ \A q \in Named : RowName(csvData[q]).s = name => r <= q
\* the j-th group in processing order
GroupAt(j) == CHOOSE name \in GroupNames :
                  Cardinality({other \in GroupNames : FirstRow(other) < FirstRow(name)}) = j - 1
\* C28: the progress callback is called exactly once per source-image group,
\* found or not, and never per record; total is the number of groups and
\* current takes the values 1, 2, ..., total in processing order.
C28_ProgressOncePerGroup ==
    /\ [](/\ Len(progressCalls) <= Cardinality(GroupNames)
          /\ cpc \in {"load", "records"} => Len(progressCalls) = g
          /\ cpc \in {"group", "returned"} => Len(progressCalls) = g - 1
          /\ cpc = "returned" => Len(progressCalls) = Cardinality(GroupNames))
    /\ [][\/ progressCalls' = progressCalls
          \/ LET j == Len(progressCalls) + 1
             IN  /\ ~AtRecord
                 /\ progressCalls' = Append(progressCalls, progressCalls'[j])
                 /\ progressCalls'[j].current = j
                 /\ progressCalls'[j].total = Cardinality(GroupNames)
                 /\ progressCalls'[j].filename = GroupAt(j)]_vars
C28_Witness ==
    /\ cpc = "returned"
    /\ Len(csvData) = 3
    /\ progressCalls = <<ProgressCall(1, 2, "Processing", FileA), ProgressCall(2, 2, "Skipping", FileB)>>
    /\ Len(VerdictsOf(FileA)) = 2

\* ---------------------------------------------------- claims on the clamp
\* C29: clamp is idempotent: for every box and every image size with width,
\* height >= 0, clamping an already clamped box to the same size returns the
\* same box.
C29_ClampIdempotent ==
    kpc = "again" => AsBox(reclamped) = AsBox(clamped)
C29_Witness ==
    /\ kpc = "again"
    /\ AsBox(clamped) # cropBox
    /\ Get(cropBox, "xmin").n2 < 0
    /\ Get(cropBox, "ymax").n2 > imageExtent.height.n2
    /\ clamped.ok
    /\ reclamped = clamped

\* C30: for every box and every image size with width, height >= 0 the
\* clamped coordinates equal min(max(v, 0), limit), each coordinate on its
\* own, and every crop that is accepted has 0 <= left < right <= width and
\* 0 <= top < bottom <= height.
C30_ClampMatchesReference ==
    kpc \in {"clamped", "again"} =>
        LET w == imageExtent.width.n2
            h == imageExtent.height.n2
        IN  /\ clamped.left.n2 = RefClamp(Get(cropBox, "xmin").n2, w)
            /\ clamped.top.n2 = RefClamp(Get(cropBox, "ymin").n2, h)
            /\ clamped.right.n2 = RefClamp(Get(cropBox, "xmax").n2, w)
            /\ clamped.bottom.n2 = RefClamp(Get(cropBox, "ymax").n2, h)
            /\ clamped.ok =>
                  /\ 0 <= clamped.left.n2 /\ clamped.left.n2 < clamped.right.n2
                  /\ clamped.right.n2 <= w
                  /\ 0 <= clamped.top.n2 /\ clamped.top.n2 < clamped.bottom.n2
                  /\ clamped.bottom.n2 <= h
C30_Witness ==
    /\ kpc = "clamped"
    /\ clamped.ok
    /\ Get(cropBox, "xmin").n2 < 0
    /\ Get(cropBox, "xmax").n2 > imageExtent.width.n2
    /\ Get(cropBox, "ymin").n2 = 1
    /\ clamped.left = Num(0)
    /\ clamped.right = imageExtent.width
    /\ clamped.top = Half(1)

\* ------------------------------------------------ claims on the totals
\* C36: every grouped record is accounted for exactly once: on return
\* saved + failed + skipped is the number of input records that have an image
\* or a filename, and during the run each counter only ever increases.
C36_EveryRecordCountedOnce ==
    /\ [](cpc = "returned" => saved + failed + skipped = Cardinality(Named))
    /\ [](cpc # "called" => saved + failed + skipped <= Cardinality(Named))
    /\ [][saved' >= saved /\ failed' >= failed /\ skipped' >= skipped]_vars
C36_Witness ==
    /\ cpc = "returned"
    /\ Len(csvData) = 3
    /\ Cardinality(Named) = 2
    /\ Returned = [saved |-> 1, failed |-> 0, skipped |-> 1]
    /\ Len(verdicts) = 2

\* the step is the catch of the group: the image was found and did not decode
DecodeFails == cpc = "load" /\ cpc' = "group"
\* C39: when decoding a found source image fails, failed grows by exactly the
\* number of records of that group, nothing of the group is saved or skipped,
\* and processing goes on with the next group: the run is not aborted.
C39_DecodeFailureFailsGroup ==
    /\ [][DecodeFails =>
            /\ Filename \in imageFiles
            /\ failed' = failed + Len(Bboxes)
            /\ saved' = saved
            /\ skipped' = skipped
            /\ outputDir' = outputDir
            /\ g' = g + 1
            /\ processedImages' = processedImages + 1]_vars
    /\ [](\A k \in 1..Len(groupedData) :
            (k < g /\ VerdictsOf(groupedData[k][1]) # <<>>
                 /\ VerdictsOf(groupedData[k][1])[1] = Verdict(groupedData[k][1], -1, "failed",
                                                              Len(groupedData[k][2])))
               => /\ Len(VerdictsOf(groupedData[k][1])) = 1
                  /\ CropsOf(groupedData[k][1]) = {})
    /\ [](cpc = "returned" => processedImages = Len(groupedData) /\ g = Len(groupedData) + 1)
C39_Witness ==
    /\ cpc = "returned"
    /\ Len(groupedData) = 2
    /\ Len(groupedData[1][2]) = 2
    /\ verdicts = <<Verdict(groupedData[1][1], -1, "failed", 2),
                    Verdict(groupedData[2][1], 0, "saved", 1)>>
    /\ imageFiles = {FileA, FileB}
    /\ Returned = [saved |-> 1, failed |-> 2, skipped |-> 0]

\* the crop files in the output
CropFiles == {at \in DOMAIN outputDir.files : outputDir.files[at] # EmptyFile}
\* C37: a crop saved earlier in the same run is never overwritten: two saved
\* records never map to the same directory and file name, so on return saved
\* is the number of crop files in the output (also for source images sharing
\* a base name, names with several dots, and records with and without id).
C37_NoCropOverwritten ==
    /\ [][SavesRecord =>
            \A at \in CropFiles : outputDir'.files[at] = outputDir.files[at]]_vars
    /\ [](cpc = "returned" => saved = Cardinality(CropFiles))

\* ----------------------------------------- claims on the batch summary
\* the batch-result messages of the items whose inference succeeded / failed
Succeeded == SelectSeq(ResultsSent, LAMBDA m : "error" \notin DOMAIN m)
Failed == SelectSeq(ResultsSent, LAMBDA m : "error" \in DOMAIN m)
\* C38: the count of the completion summary is the number of items whose
\* inference succeeded, not the number attempted: N - f for N items with f
\* failures; and at every point of the run the count is at most the number of
\* batch-result messages already emitted.
C38_SummaryCountsSuccesses ==
    /\ processedCount <= Len(ResultsSent)
    /\ processedCount = Len(Succeeded)
    /\ \A j \in 1..Len(sent) :
          sent[j].status = "batch-complete" =>
              /\ Len(ResultsSent) = batchImages
              /\ sent[j].total = Len(Succeeded)
              /\ sent[j].total = batchImages - Len(Failed)
    /\ processingStats.set =>
          /\ processingStats.total = Len(Succeeded)
          /\ processingStats.total = batchImages - Len(Failed)
C38_Witness ==
    /\ processingStats.set
    /\ status = "ready"
    /\ batchImages = 2
    /\ Len(Failed) = 1
    /\ processingStats.total = 1

\* the run has come to rest: nothing is queued on either thread and no
\* promise is outstanding
AtRest ==
    /\ clicked
    /\ wpc \notin {"start", "infer"}
    /\ instance \notin {"pending", "loaded"}
    /\ recvd = Len(sent)
    /\ stream.queue = <<>>
    /\ \A c \in 1..Len(calls) : calls[c].pc = "done"

Runs == RunsAt({"fromURL", "processor", "generate", "done", "failed"})
\* the runs that were the next message handled after a reset
RunsAfterReset == {r \in Runs : r > 1 /\ handled[r - 1].type = "reset"}
\* the run has called model.generate / post_process_generation
Generating(r) == handled[r].inputs # Undef
PostProcessed(r) == handled[r].size # Undef

\* C33: after a reset has been handled, the next run that starts finds the
\* cache empty, and what it generates from is the image of its own url,
\* preprocessed by itself.
C33_ResetEmptiesCache ==
    \A r \in RunsAfterReset :
        /\ ~Truthy(handled[r].found)
        /\ Generating(r) => handled[r].inputs = VisionInputs(handled[r].url)

\* C34: however runs and resets interleave, the vision inputs a run
\* generates from and the image size it post-processes with were computed
\* from the url given to that run.
C34_RunUsesOwnImage ==
    \A r \in Runs :
        /\ Generating(r) => handled[r].inputs = VisionInputs(handled[r].url)
        /\ PostProcessed(r) => handled[r].size = ImageSizeOf(handled[r].url)

\* ---------------------------------------------------- claims on parseCSV
\* the cell is wrapped in double quotes
Quoted(raw) == raw # <<>> /\ Head(raw) = "\""
RECURSIVE HalveQuotes(_)
\* every doubled quote is one quote
HalveQuotes(s) ==
    IF Len(s) >= 2 /\ s[1] = "\"" /\ s[2] = "\""
    THEN <<"\"">> \o HalveQuotes(SubSeq(s, 3, Len(s)))
    ELSE IF s = <<>> THEN <<>> ELSE <<Head(s)>> \o HalveQuotes(Tail(s))
\* the text a quoted cell stands for
Unquoted(raw) == HalveQuotes(SubSeq(raw, 2, Len(raw) - 1))
\* cell j of row r as the record of that row holds it
ValueAt(data, r, j) == data[r].kv[j][2]

\* C31: in a data row a field wrapped in double quotes keeps its commas as
\* part of the value (the row has as many values as cells), and a doubled
\* quote in it is one quote character of the value.
C31_QuotedFieldsKept ==
    ppc = "parsed" =>
        /\ Len(parsed) = Len(table.rows)
        /\ \A r \in 1..Len(table.rows) : \A j \in 1..2 :
              Quoted(table.rows[r][j]) =>
                  ValueAt(parsed, r, j) = Str(Trim(Unquoted(table.rows[r][j])))

\* the two arrays hold records with the same fields and the same values
FieldValueEquivalent(a, b) ==
    /\ Len(a) = Len(b)
    /\ \A r \in 1..Len(a) :
          /\ {Keys(a[r])[j] : j \in 1..Len(Keys(a[r]))} = {Keys(b[r])[j] : j \in 1..Len(Keys(b[r]))}
          /\ \A j \in 1..Len(Keys(a[r])) : Get(a[r], Keys(a[r])[j]) = Get(b[r], Keys(a[r])[j])

\* C32: for a well-formed CSV text without newlines in quoted fields,
\* parsing what the records of parseCSV(text) serialize to gives records
\* field-value-equivalent to parseCSV(text).
C32_CsvRoundTrip == ppc = "reparsed" => FieldValueEquivalent(parsed, reparsed)
====
